---- MODULE Spec2Model ----
(***************************************************************************)
(* State-root engine of crates/trie/src/trie.rs: StateRoot::calculate and  *)
(* StorageRoot::calculate over the hashed tables and the persisted branch  *)
(* nodes, with suspension (Progress) and resumption.                       *)
(*                                                                         *)
(* Hashed keys (B256) are numbers below Radix^KeyLen; Unpack gives their   *)
(* nibbles, most significant first.  A node's hash is its encoding (an     *)
(* injective, collision-free keccak), a sequence of numbers.               *)
(*                                                                         *)
(* Filter registry of crates/rpc/rpc/src/eth/filter.rs: the block ranges   *)
(* of BlockRangeInclusiveIter and get_logs_in_block_range, and the         *)
(* installed filters with their polls and the eviction of stale ones.      *)
(* Instants and durations are whole time units.                            *)
(***************************************************************************)
EXTENDS Integers, Sequences, FiniteSets, TLC

\* ------------------------------------------------------------------ bounds
\* Number of nibble values (16 in the program) and nibbles per hashed key (64).
Radix == 3
KeyLen == 4
\* Largest threshold a caller configures in the model.
MaxThreshold == 2
\* Changes of the hashed tables applied after the initial state.
MaxChanges == 1

\* Largest distance between the ends of a range iterated directly, largest
\* step below u64::MAX, largest max_logs_per_response.
MaxSpan == 6
MaxStep == 3
MaxLogs == 2
\* Filters installed over a run, the last instant of the clock, the highest best
\* block number, the configured stale_filter_ttl and the transactions announced.
MaxFilters == 2
MaxTime == 3
MaxBlock == 1
MaxTtl == 2
MaxPending == 2

NibbleRange == 0 .. (Radix - 1)

Max(a, b) == IF a >= b THEN a ELSE b

RECURSIVE Pow(_, _)
Pow(b, e) == IF e = 0 THEN 1 ELSE b * Pow(b, e - 1)

EmptyMap == [x \in {} |-> 0]
MapPut(m, k, v) == [x \in (DOMAIN m) \cup {k} |-> IF x = k THEN v ELSE m[x]]
\* HashMap::extend: entries of `n` overwrite those of `m`.
MapExtend(m, n) == [x \in (DOMAIN m) \cup (DOMAIN n) |-> IF x \in DOMAIN n THEN n[x] ELSE m[x]]

\* ------------------------------------------------------------------ nibbles
\* Nibbles::unpack: the KeyLen nibbles of a hashed key, most significant first.
Unpack(k) == [i \in 1 .. KeyLen |-> (k \div Pow(Radix, KeyLen - i)) % Radix]

\* Nibbles::pack followed by resize(32, 0): the key whose first nibbles are
\* `n` and whose remaining nibbles are zero.
RECURSIVE PackPad(_)
PackPad(n) ==
    IF n = <<>> THEN 0
    ELSE n[1] * Pow(Radix, KeyLen - 1) + (PackPad(Tail(n)) \div Radix)

RECURSIVE CommonPrefixLen(_, _)
CommonPrefixLen(a, b) ==
    IF a = <<>> \/ b = <<>> \/ a[1] # b[1] THEN 0
    ELSE 1 + CommonPrefixLen(Tail(a), Tail(b))

HasPrefix(k, p) == Len(p) <= Len(k) /\ SubSeq(k, 1, Len(p)) = p

\* Ord for Nibbles: lexicographic, a proper prefix is smaller.
NibLess(a, b) ==
    LET c == CommonPrefixLen(a, b)
    IN  IF c = Len(a) THEN c < Len(b)
        ELSE IF c = Len(b) THEN FALSE
        ELSE a[c + 1] < b[c + 1]

\* Nibbles::increment: None is the empty record set marker [some |-> FALSE].
RECURSIVE IncrementRev(_)
IncrementRev(n) ==
    IF n = <<>> THEN [some |-> FALSE, v |-> <<>>]
    ELSE LET last == n[Len(n)]
             front == SubSeq(n, 1, Len(n) - 1)
         IN  IF last < Radix - 1
             THEN [some |-> TRUE, v |-> Append(front, last + 1)]
             ELSE LET r == IncrementRev(front)
                  IN  [some |-> r.some, v |-> Append(r.v, 0)]

Increment(n) == IncrementRev(n)

\* ------------------------------------------------------------------ encoding
TagEmpty == 0
TagLeaf == 1
TagExt == 2
TagBranch == 3

Enc(x) == <<Len(x)>> \o x

\* keccak256(RLP("")).
EMPTY_ROOT_HASH == <<TagEmpty>>
NoHash == <<>>

LeafNodeRlp(short_key, value) == <<TagLeaf>> \o Enc(short_key) \o Enc(value)
ExtensionNodeRlp(short_key, child) == <<TagExt>> \o Enc(short_key) \o Enc(child)

\* BranchNode::rlp: the children are the last |state_mask| stack items, in
\* nibble order; an absent child is the empty string.
RECURSIVE BranchChildrenRlp(_, _, _)
BranchChildrenRlp(state_mask, children, nib) ==
    IF nib >= Radix THEN <<>>
    ELSE IF nib \in state_mask
         THEN Enc(Head(children)) \o BranchChildrenRlp(state_mask, Tail(children), nib + 1)
         ELSE <<0>> \o BranchChildrenRlp(state_mask, children, nib + 1)

BranchNodeRlp(state_mask, children) ==
    <<TagBranch>> \o BranchChildrenRlp(state_mask, children, 0)

\* EthAccount::from(account).with_storage_root(root), RLP encoded.
AccountRlp(account, storage_root) == <<account>> \o Enc(storage_root)
\* alloy_rlp::encode_fixed_size(&value) of a storage value.
StorageValueRlp(value) == <<value>>

\* ------------------------------------------------------------------ reference root
\* The reference Merkle-Patricia root (triehash::trie_root) over a function
\* from hashed keys to encoded values, built top-down.
RECURSIVE RefNode(_, _, _)
RefNode(keys, val, depth) ==
    LET any == CHOOSE k \in keys : TRUE
        nk == Unpack(any)
        CpWithAll(k) == CommonPrefixLen(nk, Unpack(k))
        cp == CHOOSE c \in 0 .. KeyLen :
                  /\ \A k \in keys : CpWithAll(k) >= c
                  /\ \A d \in 0 .. KeyLen : (\A k \in keys : CpWithAll(k) >= d) => d <= c
        ChildKeys(n) == {k \in keys : Unpack(k)[depth + 1] = n}
        state_mask == {n \in NibbleRange : ChildKeys(n) # {}}
        RECURSIVE Children(_)
        Children(n) ==
            IF n >= Radix THEN <<>>
            ELSE IF n \in state_mask
                 THEN <<RefNode(ChildKeys(n), val, depth + 1)>> \o Children(n + 1)
                 ELSE Children(n + 1)
    IN  IF Cardinality(keys) = 1
        THEN LeafNodeRlp(SubSeq(nk, depth + 1, KeyLen), val[any])
        ELSE IF cp > depth
             THEN ExtensionNodeRlp(SubSeq(nk, depth + 1, cp), RefNode(keys, val, cp))
             ELSE BranchNodeRlp(state_mask, Children(0))

RefRoot(val) ==
    IF DOMAIN val = {} THEN EMPTY_ROOT_HASH ELSE RefNode(DOMAIN val, val, 0)

\* ------------------------------------------------------------------ hash builder
\* BranchNodeCompact; NoNode stands for Option::None.
BranchNodeCompact(state_mask, tree_mask, hash_mask, hashes, root_hash) ==
    [some |-> TRUE, state_mask |-> state_mask, tree_mask |-> tree_mask,
     hash_mask |-> hash_mask, hashes |-> hashes, root_hash |-> root_hash]
NoNode ==
    [some |-> FALSE, state_mask |-> {}, tree_mask |-> {}, hash_mask |-> {},
     hashes |-> <<>>, root_hash |-> NoHash]

\* HashBuilder::default().
HashBuilderDefault ==
    [key |-> <<>>, stack |-> <<>>, value_is_hash |-> FALSE, value |-> <<>>,
     groups |-> <<>>, tree_masks |-> <<>>, hash_masks |-> <<>>,
     stored_in_database |-> FALSE,
     retain |-> FALSE, updated_branch_nodes |-> EmptyMap,
     panic |-> FALSE]

\* Vec::resize with the default (empty) mask.
ResizeMasks(v, n) ==
    [i \in 1 .. n |-> IF i <= Len(v) THEN v[i] ELSE {}]

\* HashBuilder::set_updates.
HbSetUpdates(hb, retain_updates) ==
    IF retain_updates
    THEN [hb EXCEPT !.retain = TRUE, !.updated_branch_nodes = EmptyMap]
    ELSE hb

\* HashBuilder::split: (self with the updates taken, the updates).
HbSplitBuilder(hb) == [hb EXCEPT !.retain = FALSE, !.updated_branch_nodes = EmptyMap]
HbSplitUpdates(hb) == hb.updated_branch_nodes

\* HashBuilder::updates_len.
HbUpdatesLen(hb) == IF hb.retain THEN Cardinality(DOMAIN hb.updated_branch_nodes) ELSE 0

\* HashBuilder::current_root.
HbCurrentRoot(hb) ==
    IF hb.stack # <<>> THEN hb.stack[Len(hb.stack)] ELSE EMPTY_ROOT_HASH

\* BranchNode::children: the hashes of the children flagged in hash_mask.
RECURSIVE BranchChildren(_, _, _, _, _)
BranchChildren(stack, state_mask, hash_mask, index, digit) ==
    IF digit >= Radix THEN <<>>
    ELSE IF digit \in state_mask
         THEN (IF digit \in hash_mask THEN <<stack[index + 1]>> ELSE <<>>)
              \o BranchChildren(stack, state_mask, hash_mask, index + 1, digit + 1)
         ELSE BranchChildren(stack, state_mask, hash_mask, index, digit + 1)

\* HashBuilder::update_masks.
HbUpdateMasks(hb, current, len_from) ==
    IF len_from > 0
    THEN LET flag == current[len_from]
             hm == [hb.hash_masks EXCEPT ![len_from] = @ \ {flag}]
             tm == IF hb.tree_masks[Len(current)] # {}
                   THEN [hb.tree_masks EXCEPT ![len_from] = @ \cup {flag}]
                   ELSE hb.tree_masks
         IN  [hb EXCEPT !.hash_masks = hm, !.tree_masks = tm]
    ELSE hb

\* HashBuilder::push_branch_node: the stack after the children were replaced
\* by the branch node.
HbPushBranchNode(hb, len) ==
    LET state_mask == hb.groups[len + 1]
        first_child_idx == Len(hb.stack) - Cardinality(state_mask)
        children == SubSeq(hb.stack, first_child_idx + 1, Len(hb.stack))
        rlp == BranchNodeRlp(state_mask, children)
    IN  [hb EXCEPT !.stack = Append(SubSeq(hb.stack, 1, first_child_idx), rlp)]

\* HashBuilder::store_branch_node, `hb` being the builder after push_branch_node.
HbStoreBranchNode(hb, current, len, children) ==
    LET hm1 == IF len > 0
               THEN [hb.hash_masks EXCEPT ![len] = @ \cup {current[len]}]
               ELSE hb.hash_masks
        store_in_db_trie == hb.tree_masks[len + 1] # {} \/ hm1[len + 1] # {}
        tm1 == IF store_in_db_trie /\ len > 0
               THEN [hb.tree_masks EXCEPT ![len] = @ \cup {current[len]}]
               ELSE hb.tree_masks
        n == BranchNodeCompact(hb.groups[len + 1], tm1[len + 1], hm1[len + 1], children,
                               IF len = 0 THEN HbCurrentRoot(hb) ELSE NoHash)
        common_prefix == SubSeq(current, 1, len)
    IN  [hb EXCEPT !.hash_masks = hm1, !.tree_masks = tm1,
                   !.updated_branch_nodes =
                       IF store_in_db_trie /\ hb.retain
                       THEN MapPut(@, common_prefix, n) ELSE @]

\* While groups.last() == Some(&TrieMask::default()): pop.
RECURSIVE PopEmptyGroups(_)
PopEmptyGroups(groups) ==
    IF groups # <<>> /\ groups[Len(groups)] = {}
    THEN PopEmptyGroups(SubSeq(groups, 1, Len(groups) - 1))
    ELSE groups

\* HashBuilder::update is a loop over `current`; its body is split into the
\* steps below, each taking the builder the previous step left.
RECURSIVE HbUpdateLoop(_, _, _, _)

\* "Adjust the state masks for branch calculation" and the resize of the
\* tree and hash masks to current.len().
HbSetDigit(hb, current, len) ==
    [hb EXCEPT
       !.groups = [(IF Len(@) <= len THEN ResizeMasks(@, len + 1) ELSE @)
                      EXCEPT ![len + 1] = @ \cup {current[len + 1]}],
       !.tree_masks = IF Len(hb.tree_masks) < Len(current)
                      THEN ResizeMasks(@, Len(current)) ELSE @,
       !.hash_masks = IF Len(hb.tree_masks) < Len(current)
                      THEN ResizeMasks(@, Len(current)) ELSE @]

\* "Concatenate the 2 nodes together" (!build_extensions): the leaf node of
\* the value, or the hash of the branch with its masks bits.
HbPushValue(hb, current, short_node_key) ==
    IF ~hb.value_is_hash
    THEN [hb EXCEPT !.stack = Append(@, LeafNodeRlp(short_node_key, hb.value))]
    ELSE [hb EXCEPT
            !.stack = Append(@, hb.value),
            !.tree_masks = IF hb.stored_in_database
                           THEN [@ EXCEPT ![Len(current)] = @ \cup {current[Len(current)]}]
                           ELSE @,
            !.hash_masks = [@ EXCEPT ![Len(current)] = @ \cup {current[Len(current)]}]]

\* The extension node replaces the stack's last item; the masks are resized.
HbPushExtension(hb, short_node_key, len_from) ==
    [hb EXCEPT
       !.stack = Append(SubSeq(@, 1, Len(@) - 1),
                        ExtensionNodeRlp(short_node_key, @[Len(@)])),
       !.tree_masks = ResizeMasks(@, len_from),
       !.hash_masks = ResizeMasks(@, len_from)]

\* "if build_extensions && !short_node_key.is_empty()".
HbBuildExtension(hb, current, short_node_key, len_from, build_extensions) ==
    IF build_extensions /\ short_node_key # <<>>
    THEN HbPushExtension(HbUpdateMasks(hb, current, len_from), short_node_key, len_from)
    ELSE hb

\* "Insert branch nodes in the stack" (push_branch_node, store_branch_node)
\* and the resize of groups and masks to len.
HbCloseGroup(hb, current, len, push) ==
    [(IF push
      THEN HbStoreBranchNode(HbPushBranchNode(hb, len), current, len,
               BranchChildren(hb.stack, hb.groups[len + 1], hb.hash_masks[len + 1],
                              Len(hb.stack) - Cardinality(hb.groups[len + 1]), 0))
      ELSE hb)
     EXCEPT !.groups = ResizeMasks(@, len),
            !.tree_masks = ResizeMasks(@, len),
            !.hash_masks = ResizeMasks(@, len)]

\* The end of the loop body: break when preceding_len is 0, else pop the empty
\* groups and go on with the truncated `current`, building extensions.
HbUpdateNext(hb, succeeding, current, preceding_len) ==
    IF preceding_len = 0 THEN hb
    ELSE HbUpdateLoop([hb EXCEPT !.groups = PopEmptyGroups(@)], succeeding,
                      SubSeq(current, 1, preceding_len), TRUE)

\* The loop body once len and len_from are known.
HbUpdateStep(hb, succeeding, current, build_extensions, preceding_len, common_prefix_len, len, len_from) ==
    IF preceding_len <= common_prefix_len /\ succeeding # <<>>
    THEN HbBuildExtension(
             IF build_extensions THEN HbSetDigit(hb, current, len)
             ELSE HbPushValue(HbSetDigit(hb, current, len), current,
                              SubSeq(current, len_from + 1, Len(current))),
             current, SubSeq(current, len_from + 1, Len(current)), len_from,
             build_extensions \/ hb.value_is_hash)
    ELSE HbUpdateNext(
             HbCloseGroup(
                 HbBuildExtension(
                     IF build_extensions THEN HbSetDigit(hb, current, len)
                     ELSE HbPushValue(HbSetDigit(hb, current, len), current,
                                      SubSeq(current, len_from + 1, Len(current))),
                     current, SubSeq(current, len_from + 1, Len(current)), len_from,
                     build_extensions \/ hb.value_is_hash),
                 current, len, succeeding # <<>> \/ hb.groups # <<>>),
             succeeding, current, preceding_len)

\* "let len = max(preceding_len, common_prefix_len); assert!(len < current.len())".
HbUpdateLen(hb, succeeding, current, build_extensions, preceding_len, common_prefix_len) ==
    IF ~(Max(preceding_len, common_prefix_len) < Len(current))
    THEN [hb EXCEPT !.panic = TRUE]
    ELSE HbUpdateStep(hb, succeeding, current, build_extensions, preceding_len,
                      common_prefix_len, Max(preceding_len, common_prefix_len),
                      IF succeeding # <<>> \/ hb.groups # <<>>
                      THEN Max(preceding_len, common_prefix_len) + 1
                      ELSE Max(preceding_len, common_prefix_len))

HbUpdateLoop(hb, succeeding, current, build_extensions) ==
    HbUpdateLen(hb, succeeding, current, build_extensions,
                IF hb.groups = <<>> THEN 0 ELSE Len(hb.groups) - 1,
                CommonPrefixLen(succeeding, current))

\* HashBuilder::update.
HbUpdate(hb, succeeding) == HbUpdateLoop(hb, succeeding, hb.key, FALSE)

\* HashBuilder::add_leaf.
HbAddLeaf(hb, key, value) ==
    IF hb.panic \/ ~NibLess(hb.key, key) THEN [hb EXCEPT !.panic = TRUE]
    ELSE LET u == IF hb.key # <<>> THEN HbUpdate(hb, key) ELSE hb
         IN  [u EXCEPT !.key = key, !.value_is_hash = FALSE, !.value = value]

\* HashBuilder::add_branch.
HbAddBranch(hb, key, value, stored_in_database) ==
    IF hb.panic \/ ~(NibLess(hb.key, key) \/ (hb.key = <<>> /\ key = <<>>))
    THEN [hb EXCEPT !.panic = TRUE]
    ELSE LET u == IF hb.key # <<>> THEN HbUpdate(hb, key)
                  ELSE IF key = <<>> THEN [hb EXCEPT !.stack = Append(@, value)]
                  ELSE hb
         IN  [u EXCEPT !.key = key, !.value_is_hash = TRUE, !.value = value,
                       !.stored_in_database = stored_in_database]

\* HashBuilder::root: the builder afterwards; its root is HbCurrentRoot.
HbRoot(hb) ==
    IF hb.panic THEN hb
    ELSE IF hb.key # <<>>
         THEN [HbUpdate(hb, <<>>) EXCEPT !.key = <<>>, !.value_is_hash = FALSE,
                                         !.value = <<>>]
         ELSE hb

\* ------------------------------------------------------------------ prefix set
None == -1

\* The elements of a finite set of hashed keys in ascending order.
RECURSIVE SortedKeys(_)
SortedKeys(S) ==
    IF S = {} THEN <<>>
    ELSE LET m == CHOOSE x \in S : \A y \in S : x <= y
         IN  <<m>> \o SortedKeys(S \ {m})

\* PrefixSetMut::freeze over the unpacked keys: sorted, deduplicated, index 0.
PrefixSetOf(S) ==
    LET ks == SortedKeys(S)
    IN  [keys |-> [i \in 1 .. Len(ks) |-> Unpack(ks[i])], index |-> 0]

RECURSIVE PrefixSetRewind(_, _, _)
PrefixSetRewind(keys, index, prefix) ==
    IF index > 0 /\ NibLess(prefix, keys[index + 1])
    THEN PrefixSetRewind(keys, index - 1, prefix)
    ELSE index

\* The scan of PrefixSet::contains from position i (0-based): found and new index.
RECURSIVE PrefixSetScan(_, _, _, _)
PrefixSetScan(keys, start, i, prefix) ==
    IF i >= Len(keys) THEN [found |-> FALSE, index |-> start]
    ELSE IF HasPrefix(keys[i + 1], prefix) THEN [found |-> TRUE, index |-> i]
    ELSE IF NibLess(prefix, keys[i + 1]) THEN [found |-> FALSE, index |-> i]
    ELSE PrefixSetScan(keys, start, i + 1, prefix)

PrefixSetScanFrom(keys, start, prefix) == PrefixSetScan(keys, start, start, prefix)

\* PrefixSet::contains: [found, index].
PrefixSetContains(ps, prefix) ==
    PrefixSetScanFrom(ps.keys, PrefixSetRewind(ps.keys, ps.index, prefix), prefix)

\* ------------------------------------------------------------------ trie cursor
\* TrieCursor::seek_exact / seek over a table of branch nodes keyed by path.
TrieSeekExact(trie, key) ==
    IF key \in DOMAIN trie THEN [some |-> TRUE, key |-> key, node |-> trie[key]]
    ELSE [some |-> FALSE, key |-> <<>>, node |-> NoNode]

TrieFirst(trie, ge) ==
    IF ge = {} THEN [some |-> FALSE, key |-> <<>>, node |-> NoNode]
    ELSE TrieSeekExact(trie, CHOOSE p \in ge : \A q \in ge : p = q \/ NibLess(p, q))

TrieSeek(trie, key) == TrieFirst(trie, {p \in DOMAIN trie : p = key \/ NibLess(key, p)})

\* ------------------------------------------------------------------ walker
\* CursorSubNode::new.
CursorSubNode(key, node) ==
    [key |-> key, node |-> node,
     nibble |-> IF node.some /\ node.root_hash = NoHash
                THEN CHOOSE i \in node.state_mask : \A j \in node.state_mask : i <= j
                ELSE -1]

CursorSubNodeDefault == [key |-> <<>>, node |-> NoNode, nibble |-> -1]

SubNodeFullKey(n) == IF n.nibble >= 0 THEN Append(n.key, n.nibble) ELSE n.key
SubNodeStateFlag(n) == IF n.node.some /\ n.nibble >= 0 THEN n.nibble \in n.node.state_mask ELSE TRUE
SubNodeTreeFlag(n) == IF n.node.some /\ n.nibble >= 0 THEN n.nibble \in n.node.tree_mask ELSE TRUE
SubNodeHashFlag(n) ==
    IF n.node.some
    THEN IF n.nibble = -1 THEN n.node.root_hash # NoHash ELSE n.nibble \in n.node.hash_mask
    ELSE FALSE

\* BranchNodeCompact::hash_for_nibble: the hash at the rank of the nibble in hash_mask.
HashForNibble(node, nibble) ==
    node.hashes[Cardinality({i \in node.hash_mask : i < nibble}) + 1]

SubNodeHash(n) ==
    IF SubNodeHashFlag(n)
    THEN IF n.nibble = -1 THEN n.node.root_hash ELSE HashForNibble(n.node, n.nibble)
    ELSE NoHash

WalkerHasKey(w) == w.stack # <<>>
WalkerKey(w) == SubNodeFullKey(w.stack[Len(w.stack)])
WalkerHash(w) == SubNodeHash(w.stack[Len(w.stack)])
WalkerChildrenAreInTrie(w) ==
    IF w.stack = <<>> THEN FALSE ELSE SubNodeTreeFlag(w.stack[Len(w.stack)])

WalkerTop(w) == w.stack[Len(w.stack)]
WalkerPop(w) == [w EXCEPT !.stack = SubSeq(@, 1, Len(@) - 1)]

\* TrieWalker::update_skip_node, `c` being changes.contains(key).
WalkerSetSkip(w, c) ==
    [w EXCEPT !.changes.index = c.index,
              !.can_skip_current_node = ~c.found /\ SubNodeHashFlag(WalkerTop(w))]

WalkerUpdateSkipNode(w) ==
    IF WalkerHasKey(w)
    THEN WalkerSetSkip(w, PrefixSetContains(w.changes, WalkerKey(w)))
    ELSE [w EXCEPT !.can_skip_current_node = FALSE]

\* The end of consume_node: the delete of the consumed node is scheduled
\* unless the node is a skippable root node.
WalkerScheduleDelete(w, key) ==
    IF (~w.can_skip_current_node \/ WalkerTop(w).nibble # -1) /\ w.retain
    THEN [w EXCEPT !.deletes = @ \cup {key}]
    ELSE w

\* consume_node after its seek: the entry found (if any) is pushed.
WalkerPushEntry(w, e) ==
    IF ~e.some THEN [w EXCEPT !.stack = <<>>]
    ELSE WalkerScheduleDelete(
             WalkerUpdateSkipNode(
                 [w EXCEPT !.stack =
                     Append(IF e.key # <<>> /\ w.stack # <<>>
                            THEN [w.stack EXCEPT ![1].nibble = e.key[1]]
                            ELSE w.stack,
                            CursorSubNode(e.key, e.node))]),
             e.key)

\* TrieWalker::consume_node.
WalkerConsumeNode(w, trie) == WalkerPushEntry(w, TrieSeek(trie, WalkerKey(w)))

\* The loop of move_to_next_sibling that finds the next nibble with state.
RECURSIVE NextStateNibble(_)
NextStateNibble(n) ==
    IF n.nibble < Radix
    THEN IF SubNodeStateFlag(n) THEN n ELSE NextStateNibble([n EXCEPT !.nibble = @ + 1])
    ELSE n

RECURSIVE WalkerMoveToNextSibling(_, _, _)

\* move_to_next_sibling once the next nibble with state was looked for.
WalkerSetSibling(w, trie, nxt) ==
    IF nxt.nibble < Radix THEN [w EXCEPT !.stack[Len(w.stack)] = nxt]
    ELSE WalkerMoveToNextSibling(WalkerPop(w), trie, FALSE)

\* TrieWalker::move_to_next_sibling.
WalkerMoveToNextSibling(w, trie, allow_root_to_child_nibble) ==
    IF w.stack = <<>> THEN w
    ELSE IF WalkerTop(w).nibble >= Radix - 1
            \/ (WalkerTop(w).nibble < 0 /\ ~allow_root_to_child_nibble)
    THEN WalkerMoveToNextSibling(WalkerPop(w), trie, FALSE)
    ELSE IF ~WalkerTop(w).node.some
    THEN WalkerConsumeNode([w EXCEPT !.stack[Len(w.stack)].nibble = @ + 1], trie)
    ELSE WalkerSetSibling(w, trie, NextStateNibble([WalkerTop(w) EXCEPT !.nibble = @ + 1]))

\* TrieWalker::advance.
WalkerAdvance(w, trie) ==
    IF w.stack = <<>> THEN w
    ELSE WalkerUpdateSkipNode(
             IF ~w.can_skip_current_node /\ WalkerChildrenAreInTrie(w)
             THEN IF WalkerTop(w).nibble = -1
                  THEN WalkerMoveToNextSibling(w, trie, TRUE)
                  ELSE WalkerConsumeNode(w, trie)
             ELSE WalkerMoveToNextSibling(w, trie, FALSE))

\* TrieWalker::new: a single empty stack element, replaced by the root node of
\* the table when there is one.
WalkerNew(trie, changes) ==
    WalkerUpdateSkipNode(
        [stack |-> IF <<>> \in DOMAIN trie THEN <<CursorSubNode(<<>>, trie[<<>>])>>
                   ELSE <<CursorSubNodeDefault>>,
         can_skip_current_node |-> FALSE,
         changes |-> changes, retain |-> FALSE, deletes |-> {}])

\* TrieWalker::from_stack.
WalkerFromStack(stack, changes) ==
    WalkerUpdateSkipNode([stack |-> stack, can_skip_current_node |-> FALSE,
                          changes |-> changes, retain |-> FALSE, deletes |-> {}])

\* TrieWalker::set_updates / with_updates.
WalkerSetUpdates(w, retain_updates) ==
    IF retain_updates THEN [w EXCEPT !.retain = TRUE, !.deletes = {}] ELSE w

\* TrieWalker::updates_len.
WalkerUpdatesLen(w) == IF w.retain THEN Cardinality(w.deletes) ELSE 0

PackPadSome(inc) == IF inc.some THEN PackPad(inc.v) ELSE None

\* TrieWalker::next_unprocessed_key: None or the padded hashed key.
WalkerNextUnprocessedKey(w) ==
    IF ~WalkerHasKey(w) THEN None
    ELSE IF w.can_skip_current_node THEN PackPadSome(Increment(WalkerKey(w)))
    ELSE PackPad(WalkerKey(w))

\* ------------------------------------------------------------------ hashed cursors
\* seek: the first key of the table that is >= key; next: the key after the
\* cursor position.  None when there is no such entry.
MinKey(S) == IF S = {} THEN None ELSE CHOOSE k \in S : \A j \in S : k <= j

HashedSeek(table, key) == MinKey({k \in DOMAIN table : k >= key})

HashedNext(table, pos) ==
    IF pos = None THEN None ELSE MinKey({k \in DOMAIN table : k > pos})

\* ------------------------------------------------------------------ node iterators
\* AccountNodeIter::new / StorageNodeIter::new.
NodeIterNew(walker) ==
    [walker |-> walker, previous_account_key |-> None,
     current_hashed_entry |-> None, current_walker_key_checked |-> FALSE]

\* AccountNodeIter::with_last_account_key.
NodeIterWithLastAccountKey(it, key) == [it EXCEPT !.previous_account_key = key]

NodeNone == [kind |-> "None", key |-> <<>>, hashed |-> None, hash |-> NoHash,
             children_are_in_trie |-> FALSE]
NodeBranch(key, hash, in_trie) ==
    [kind |-> "Branch", key |-> key, hashed |-> None, hash |-> hash,
     children_are_in_trie |-> in_trie]
NodeLeaf(hashed) ==
    [kind |-> "Leaf", key |-> Unpack(hashed), hashed |-> hashed, hash |-> NoHash,
     children_are_in_trie |-> FALSE]

\* AccountNodeIter::try_next and StorageNodeIter::try_next (the latter never has
\* a previous key): the iterator afterwards and the node returned.  The loop of
\* try_next is split into the steps of its body.
RECURSIVE NodeIterTryNext(_, _, _)

\* "Handle seeking and advancing" without a previous key: the end of the
\* stream when the walker has no unprocessed key, else seek and advance.
NodeIterAdvance(it, hashed, trie, seek_key) ==
    IF seek_key = None THEN [it |-> it, node |-> NodeNone]
    ELSE NodeIterTryNext([it EXCEPT !.current_hashed_entry = HashedSeek(hashed, seek_key),
                                    !.walker = WalkerAdvance(@, trie)],
                         hashed, trie)

\* "match self.previous_account_key.take()".
NodeIterSeek(it, hashed, trie) ==
    IF it.previous_account_key # None
    THEN NodeIterTryNext(
             [it EXCEPT !.previous_account_key = None,
                        !.current_hashed_entry =
                            HashedNext(hashed, HashedSeek(hashed, it.previous_account_key))],
             hashed, trie)
    ELSE NodeIterAdvance(it, hashed, trie, WalkerNextUnprocessedKey(it.walker))

\* "if let Some(entry) = self.current_hashed_entry.take()".
NodeIterEntry(it, hashed, trie) ==
    IF it.current_hashed_entry # None
    THEN IF WalkerHasKey(it.walker)
            /\ NibLess(WalkerKey(it.walker), Unpack(it.current_hashed_entry))
         THEN NodeIterTryNext([it EXCEPT !.current_hashed_entry = None,
                                         !.current_walker_key_checked = FALSE],
                              hashed, trie)
         ELSE [it |-> [it EXCEPT !.current_hashed_entry = HashedNext(hashed, @)],
               node |-> NodeLeaf(it.current_hashed_entry)]
    ELSE NodeIterSeek(it, hashed, trie)

\* "if !self.current_walker_key_checked && self.previous_account_key.is_none()".
NodeIterUnchecked(it) ==
    /\ WalkerHasKey(it.walker)
    /\ ~it.current_walker_key_checked
    /\ it.previous_account_key = None

NodeIterTryNext(it, hashed, trie) ==
    IF NodeIterUnchecked(it)
    THEN IF it.walker.can_skip_current_node
         THEN [it |-> [it EXCEPT !.current_walker_key_checked = TRUE],
               node |-> NodeBranch(WalkerKey(it.walker), WalkerHash(it.walker),
                                   WalkerChildrenAreInTrie(it.walker))]
         ELSE NodeIterEntry([it EXCEPT !.current_walker_key_checked = TRUE], hashed, trie)
    ELSE NodeIterEntry(it, hashed, trie)

\* ------------------------------------------------------------------ trie updates
AccountNodeKey(path) == [kind |-> "AccountNode", addr |-> None, path |-> path]
StorageTrieKey(addr) == [kind |-> "StorageTrie", addr |-> addr, path |-> <<>>]
StorageNodeKey(addr, path) == [kind |-> "StorageNode", addr |-> addr, path |-> path]

\* TrieOp::Delete and TrieOp::Update(node): an op is an update iff op.some.
TrieOpDelete == NoNode
TrieOpUpdate(node) == node

\* TrieUpdates::extend_with_account_updates / extend_with_storage_updates.
ExtendWithAccountUpdates(tu, updates) ==
    MapExtend(tu, [k \in {AccountNodeKey(p) : p \in DOMAIN updates} |->
                       TrieOpUpdate(updates[k.path])])
ExtendWithStorageUpdates(tu, addr, updates) ==
    MapExtend(tu, [k \in {StorageNodeKey(addr, p) : p \in DOMAIN updates} |->
                       TrieOpUpdate(updates[k.path])])
\* TrieUpdates::extend_with_deletes.
ExtendWithDeletes(tu, keys) == MapExtend(tu, [k \in keys |-> TrieOpDelete])

\* ------------------------------------------------------------------ storage root
\* The loop of StorageRoot::calculate; StorageRootNode is its body for the
\* node `r` the iterator returned.
RECURSIVE StorageRootLoop(_, _, _, _, _, _)

StorageRootNode(r, hb, walked, fed, storage, trie) ==
    IF r.node.kind = "None" \/ hb.panic
    THEN [it |-> r.it, hb |-> hb, walked |-> walked, fed |-> fed]
    ELSE IF r.node.kind = "Branch"
    THEN StorageRootLoop(r.it,
             HbAddBranch(hb, r.node.key, r.node.hash, r.node.children_are_in_trie),
             walked, Append(fed, r.node.key), storage, trie)
    ELSE StorageRootLoop(r.it,
             HbAddLeaf(hb, r.node.key, StorageValueRlp(storage[r.node.hashed])),
             walked + 1, Append(fed, r.node.key), storage, trie)

\* `fed` collects the keys handed to the storage hash builder.
StorageRootLoop(it, hb, walked, fed, storage, trie) ==
    StorageRootNode(NodeIterTryNext(it, storage, trie), hb, walked, fed, storage, trie)

\* The end of StorageRoot::calculate: the root and the updates of the walker
\* and of the hash builder, `hb` being the builder after root().
StorageRootResult(hashed_address, walker, walked, fed, hb) ==
    [root |-> HbCurrentRoot(hb), walked |-> walked, fed |-> fed,
     updates |-> ExtendWithStorageUpdates(
                     ExtendWithDeletes(EmptyMap,
                         {StorageNodeKey(hashed_address, p) : p \in walker.deletes}),
                     hashed_address, HbSplitUpdates(hb)),
     panic |-> hb.panic]

StorageRootFinish(hashed_address, l) ==
    StorageRootResult(hashed_address, l.it.walker, l.walked, l.fed, HbRoot(l.hb))

\* StorageRoot::calculate with the changed prefixes left out of the walker.
StorageRootCalculateStale(hashed_address, storage, trie, changed_prefixes, retain_updates) ==
    IF DOMAIN storage = {}
    THEN [root |-> EMPTY_ROOT_HASH, walked |-> 0, fed |-> <<>>,
          updates |-> [k \in {StorageTrieKey(hashed_address)} |-> TrieOpDelete],
          panic |-> FALSE]
    ELSE StorageRootFinish(hashed_address,
             StorageRootLoop(
                 NodeIterNew(WalkerSetUpdates(WalkerNew(trie, PrefixSetOf({})),
                                              retain_updates)),
                 HbSetUpdates(HashBuilderDefault, retain_updates), 0, <<>>, storage, trie))

\* StorageRoot::calculate without the short circuit on empty storage.
StorageRootCalculateNoShortCircuit(hashed_address, storage, trie, changed_prefixes, retain_updates) ==
    StorageRootFinish(hashed_address,
        StorageRootLoop(
            NodeIterNew(WalkerSetUpdates(WalkerNew(trie, changed_prefixes), retain_updates)),
            HbSetUpdates(HashBuilderDefault, retain_updates), 0, <<>>, storage, trie))

\* StorageRoot::calculate for `hashed_address` over its hashed storage entries
\* (`storage`, empty when it has none) and its persisted storage-trie nodes.
StorageRootCalculate(hashed_address, storage, trie, changed_prefixes, retain_updates) ==
    IF DOMAIN storage = {}
    THEN [root |-> EMPTY_ROOT_HASH, walked |-> 0, fed |-> <<>>,
          updates |-> [k \in {StorageTrieKey(hashed_address)} |-> TrieOpDelete],
          panic |-> FALSE]
    ELSE StorageRootFinish(hashed_address,
             StorageRootLoop(
                 NodeIterNew(WalkerSetUpdates(WalkerNew(trie, changed_prefixes),
                                              retain_updates)),
                 HbSetUpdates(HashBuilderDefault, retain_updates), 0, <<>>, storage, trie))

\* ------------------------------------------------------------------ flush
\* TrieUpdates::flush on the AccountsTrie table: a Delete removes the path, an
\* Update is written unless its path is empty.
FlushAccountsTrie(trie, updates) ==
    LET ks == {k \in DOMAIN updates : k.kind = "AccountNode"}
        removed == {k.path : k \in {j \in ks : ~updates[j].some}}
        written == {k.path : k \in {j \in ks : updates[j].some /\ j.path # <<>>}}
    IN  [p \in ((DOMAIN trie) \ removed) \cup written |->
            IF p \in written THEN updates[AccountNodeKey(p)] ELSE trie[p]]

\* TrieUpdates::flush on the StoragesTrie entries of one hashed address.  The
\* operations are applied in key order, so StorageTrie(addr) (delete every
\* entry of the address) comes before the StorageNode entries of the address.
FlushStorageTrieOf(addr, trie, updates) ==
    LET ks == {k \in DOMAIN updates : k.kind = "StorageNode" /\ k.addr = addr /\ k.path # <<>>}
        base == IF StorageTrieKey(addr) \in DOMAIN updates THEN EmptyMap ELSE trie
        written == {k.path : k \in {j \in ks : updates[j].some}}
        removed == {k.path : k \in {j \in ks : ~updates[j].some}}
    IN  [p \in ((DOMAIN base) \ removed) \cup written |->
            IF p \in written THEN updates[StorageNodeKey(addr, p)] ELSE base[p]]

\* ------------------------------------------------------------------ state root
\* u64::MAX of with_no_threshold (scaled to the largest 32-bit integer)
\* and the threshold of StateRoot::new.
U64_MAX == 2147483647
DefaultThreshold == 100000

\* IntermediateStateRootState; NoState stands for Option::None.
NoState ==
    [some |-> FALSE, hash_builder |-> HashBuilderDefault, walker_stack |-> <<>>,
     last_account_key |-> None]

\* StateRootProgress::Complete and StateRootProgress::Progress.
Complete(root, walked, updates) ==
    [kind |-> "Complete", root |-> root, walked |-> walked, updates |-> updates,
     state |-> NoState]
Progress(state, walked, updates) ==
    [kind |-> "Progress", root |-> NoHash, walked |-> walked, updates |-> updates,
     state |-> state]
NoResult ==
    [kind |-> "None", root |-> NoHash, walked |-> 0, updates |-> EmptyMap, state |-> NoState]

\* Err(StateRootError): the `?` of a cursor open, of try_next or of the nested
\* storage root returned early; the Result carries neither root, updates nor
\* snapshot.
ErrResult ==
    [kind |-> "Err", root |-> NoHash, walked |-> 0, updates |-> EmptyMap, state |-> NoState]

\* The entries of a table for one hashed address (none: the empty table).
EntriesOf(table, addr) == IF addr \in DOMAIN table THEN table[addr] ELSE EmptyMap
\* changed_storage_prefixes.get(&hashed_address).cloned().unwrap_or_default().
EntriesOfSet(table, addr) == IF addr \in DOMAIN table THEN table[addr] ELSE {}

\* The tables and the configuration one StateRoot::calculate call reads.
\*   accounts, storage: HashedAccount, HashedStorage
\*   accounts_trie, storages_trie: AccountsTrie, StoragesTrie
\*   changed_account_prefixes, changed_storage_prefixes, destroyed_accounts, threshold
\* StateRoot::calculate up to its loop: the hash builder and the node iterator.
\* The walker of calculate with the changed account prefixes left out.
CalculateWalkerNoChanges(env, previous_state, prefixes) ==
    IF previous_state.some
    THEN WalkerFromStack(previous_state.walker_stack, PrefixSetOf({}))
    ELSE WalkerNew(env.accounts_trie, PrefixSetOf({}))

\* The locals of the call are a record: hash_builder, account_node_iter,
\* trie_updates, hashed_entries_walked, total_updates_len, the result once the
\* call returns, panic once an assertion failed; and, kept for the properties,
\* the keys handed to the hash builder (fed) and the account of the last leaf
\* with its storage root and the keys handed to the storage hash builder.
CalculateWalker(env, previous_state, prefixes) ==
    IF previous_state.some THEN WalkerFromStack(previous_state.walker_stack, prefixes)
    ELSE WalkerNew(env.accounts_trie, prefixes)

CalculateNodeIter(previous_state, walker) ==
    IF previous_state.some
    THEN NodeIterWithLastAccountKey(NodeIterNew(walker), previous_state.last_account_key)
    ELSE NodeIterNew(walker)

CalculateBegin(env, previous_state, retain_updates) ==
    [hash_builder |->
         HbSetUpdates(IF previous_state.some THEN previous_state.hash_builder
                      ELSE HashBuilderDefault, retain_updates),
     account_node_iter |->
         CalculateNodeIter(previous_state,
             WalkerSetUpdates(
                 CalculateWalker(env, previous_state,
                                 PrefixSetOf(env.changed_account_prefixes)),
                 retain_updates)),
     trie_updates |-> EmptyMap,
     hashed_entries_walked |-> 0,
     fed |-> <<>>,
     hashed_address |-> None,
     storage_root |-> NoHash,
     storage_fed |-> <<>>,
     total_updates_len |-> None,
     panic |-> FALSE,
     result |-> NoResult]

\* The locals of a call that is not under way.
CalculateDropped ==
    [hash_builder |-> HashBuilderDefault,
     account_node_iter |-> NodeIterNew(WalkerFromStack(<<>>, PrefixSetOf({}))),
     trie_updates |-> EmptyMap, hashed_entries_walked |-> 0, fed |-> <<>>,
     hashed_address |-> None, storage_root |-> NoHash, storage_fed |-> <<>>,
     total_updates_len |-> None, panic |-> FALSE, result |-> NoResult]

\* A failed step that hands the caller what the call had accumulated.
CalculateErrorPartial(c) ==
    [c EXCEPT !.result = Progress(NoState, c.hashed_entries_walked, c.trie_updates)]

\* A `?` of calculate took the error branch: the call returns Err and its
\* locals are dropped.
CalculateError(c) == [CalculateDropped EXCEPT !.result = ErrResult]

WalkerUpdates(w) == ExtendWithDeletes(EmptyMap, {AccountNodeKey(p) : p \in w.deletes})

\* The threshold check without the retain_updates condition.
ReturnsProgressUnretained(retain_updates, total_updates_len, threshold) ==
    total_updates_len >= threshold

\* The threshold check with a strict comparison.
ReturnsProgressAbove(retain_updates, total_updates_len, threshold) ==
    retain_updates /\ total_updates_len > threshold

\* The threshold check after a leaf.
ReturnsProgress(retain_updates, total_updates_len, threshold) ==
    retain_updates /\ total_updates_len >= threshold

\* The final updates without the deletes of the destroyed accounts.
CompleteUpdatesNoDeletes(c, env, it, hb) ==
    ExtendWithAccountUpdates(MapExtend(c.trie_updates, WalkerUpdates(it.walker)),
                             HbSplitUpdates(hb))

\* After the loop of calculate: root(), the two splits, the deletes of the
\* destroyed accounts, Complete.  `hb` is the builder after root().
CompleteUpdates(c, env, it, hb) ==
    ExtendWithDeletes(
        ExtendWithAccountUpdates(MapExtend(c.trie_updates, WalkerUpdates(it.walker)),
                                 HbSplitUpdates(hb)),
        {StorageTrieKey(a) : a \in env.destroyed_accounts})

CalculateFinish(c, it, hb, trie_updates) ==
    [c EXCEPT !.account_node_iter = it, !.hash_builder = hb,
              !.trie_updates = trie_updates, !.total_updates_len = None,
              !.result = Complete(HbCurrentRoot(hb), c.hashed_entries_walked, trie_updates)]

CalculateComplete(c, env, it, hb) ==
    CalculateFinish(c, it, hb, CompleteUpdates(c, env, it, hb))

\* The snapshot with the hash builder as it is, its updates not taken out.
ProgressStateUnsplit(it, hb, hashed_address) ==
    [some |-> TRUE, hash_builder |-> hb,
     walker_stack |-> it.walker.stack, last_account_key |-> hashed_address]

\* The return of Progress: the snapshot and the updates of this segment.
ProgressState(it, hb, hashed_address) ==
    [some |-> TRUE, hash_builder |-> HbSplitBuilder(hb),
     walker_stack |-> it.walker.stack, last_account_key |-> hashed_address]

\* The updates of a Progress with the walker's added after the hash builder's.
ProgressUpdatesWalkerLast(it, hb, trie_updates) ==
    MapExtend(ExtendWithAccountUpdates(trie_updates, HbSplitUpdates(hb)),
              WalkerUpdates(it.walker))

ProgressUpdates(it, hb, trie_updates) ==
    ExtendWithAccountUpdates(MapExtend(trie_updates, WalkerUpdates(it.walker)),
                             HbSplitUpdates(hb))

CalculateProgress(c, state, trie_updates) ==
    [c EXCEPT !.trie_updates = trie_updates,
              !.result = Progress(state, c.hashed_entries_walked, trie_updates)]

\* AccountNode::Branch followed by a return of Progress.
CalculateBranchSuspends(c, r, hb) ==
    CalculateProgress(
        [c EXCEPT !.account_node_iter = r.it, !.hash_builder = hb,
                  !.fed = Append(@, r.node.key), !.total_updates_len = None,
                  !.panic = hb.panic],
        ProgressState(r.it, hb, c.hashed_address),
        ProgressUpdates(r.it, hb, c.trie_updates))

\* AccountNode::Branch: add_branch; `hb` is the builder afterwards.
CalculateBranch(c, r, hb) ==
    [c EXCEPT !.account_node_iter = r.it, !.hash_builder = hb,
              !.fed = Append(@, r.node.key), !.total_updates_len = None,
              !.panic = hb.panic]

\* "Decide if we need to return intermediate progress", `c` holding the locals
\* after add_leaf.
CalculateThreshold(c, env, retain_updates, hashed_address) ==
    IF ~c.panic /\ ReturnsProgress(retain_updates, c.total_updates_len, env.threshold)
    THEN CalculateProgress(c,
             ProgressState(c.account_node_iter, c.hash_builder, hashed_address),
             ProgressUpdates(c.account_node_iter, c.hash_builder, c.trie_updates))
    ELSE c

\* AccountNode::Leaf with the storage slots walked left out of the count.
CalculateAddLeafAccountsOnly(c, env, retain_updates, r, sr, trie_updates, hb) ==
    CalculateThreshold(
        [c EXCEPT !.account_node_iter = r.it, !.hash_builder = hb,
                  !.trie_updates = trie_updates,
                  !.hashed_entries_walked = @ + 1,
                  !.fed = Append(@, r.node.key),
                  !.hashed_address = r.node.hashed,
                  !.storage_root = sr.root,
                  !.storage_fed = sr.fed,
                  !.total_updates_len =
                      Cardinality(DOMAIN trie_updates) + WalkerUpdatesLen(r.it.walker)
                      + HbUpdatesLen(hb),
                  !.panic = hb.panic \/ sr.panic],
        env, retain_updates, r.node.hashed)

\* AccountNode::Leaf once the storage root `sr` is known: the walked count,
\* the storage updates, add_leaf (`hb` is the builder afterwards) and the sum
\* of the three update counts.
CalculateAddLeaf(c, env, retain_updates, r, sr, trie_updates, hb) ==
    CalculateThreshold(
        [c EXCEPT !.account_node_iter = r.it, !.hash_builder = hb,
                  !.trie_updates = trie_updates,
                  !.hashed_entries_walked =
                      @ + 1 + (IF retain_updates THEN sr.walked ELSE 0),
                  !.fed = Append(@, r.node.key),
                  !.hashed_address = r.node.hashed,
                  !.storage_root = sr.root,
                  !.storage_fed = sr.fed,
                  !.total_updates_len =
                      Cardinality(DOMAIN trie_updates) + WalkerUpdatesLen(r.it.walker)
                      + HbUpdatesLen(hb),
                  !.panic = hb.panic \/ sr.panic],
        env, retain_updates, r.node.hashed)

\* The account encoded with the empty storage root instead of its own.
CalculateLeafEmptyStorage(c, env, retain_updates, r, sr) ==
    CalculateAddLeaf(c, env, retain_updates, r, sr,
        IF retain_updates THEN MapExtend(c.trie_updates, sr.updates) ELSE c.trie_updates,
        HbAddLeaf(c.hash_builder, Unpack(r.node.hashed),
                  AccountRlp(env.accounts[r.node.hashed], EMPTY_ROOT_HASH)))

\* with_storage_root, the encoding and add_leaf of AccountNode::Leaf.
CalculateLeaf(c, env, retain_updates, r, sr) ==
    CalculateAddLeaf(c, env, retain_updates, r, sr,
        IF retain_updates THEN MapExtend(c.trie_updates, sr.updates) ELSE c.trie_updates,
        HbAddLeaf(c.hash_builder, Unpack(r.node.hashed),
                  AccountRlp(env.accounts[r.node.hashed], sr.root)))

\* The storage root of the account of a leaf.
LeafStorageRoot(env, retain_updates, hashed_address) ==
    StorageRootCalculate(hashed_address,
        EntriesOf(env.storage, hashed_address),
        EntriesOf(env.storages_trie, hashed_address),
        PrefixSetOf(EntriesOfSet(env.changed_storage_prefixes, hashed_address)),
        retain_updates)

\* The body of the loop of calculate for the node `r` the iterator returned.
CalculateNode(c, env, retain_updates, r) ==
    IF r.node.kind = "None"
    THEN CalculateComplete(c, env, r.it, HbRoot(c.hash_builder))
    ELSE IF r.node.kind = "Branch"
    THEN CalculateBranch(c, r, HbAddBranch(c.hash_builder, r.node.key, r.node.hash,
                                           r.node.children_are_in_trie))
    ELSE CalculateLeaf(c, env, retain_updates, r,
                       LeafStorageRoot(env, retain_updates, r.node.hashed))

\* One pass of the loop of StateRoot::calculate: the next node of the iterator
\* is handled; at the end of the stream the call completes.
CalculateIteration(c, env, retain_updates) ==
    CalculateNode(c, env, retain_updates,
        NodeIterTryNext(c.account_node_iter, env.accounts, env.accounts_trie))

\* StateRoot::calculate from its loop to its return: Complete, Progress or a panic.
RECURSIVE CalculateRun(_, _, _)
CalculateRun(c, env, retain_updates) ==
    IF c.panic \/ c.result.kind # "None" THEN c
    ELSE CalculateRun(CalculateIteration(c, env, retain_updates), env, retain_updates)

\* with_no_threshold leaving the configured threshold in place.
WithThresholdKept(env) == env

\* StateRoot::with_no_threshold.
WithNoThreshold(env) == [env EXCEPT !.threshold = U64_MAX]

\* StateRoot::root_with_updates: one call that ignores the threshold.
RootWithUpdates(env) == CalculateRun(CalculateBegin(WithNoThreshold(env), NoState, TRUE),
                                     WithNoThreshold(env), TRUE)

\* ------------------------------------------------------------------ block ranges
\* crates/rpc/rpc/src/eth/filter.rs.  Block numbers are u64, scaled like
\* U64_MAX; an addition that overflows panics in a build with overflow checks
\* and wraps in a build without.
MAX_HEADERS_RANGE == 1000

Min(a, b) == IF a <= b THEN a ELSE b
OverflowsAdd(a, b) == a > U64_MAX - b
WrappingAdd(a, b) == IF OverflowsAdd(a, b) THEN a - (U64_MAX - b) - 1 ELSE a + b

\* StepBy<RangeInclusive<u64>>: start, start + by, ... while not above `last`.
StepByNew(start, end, by) ==
    [cur |-> start, last |-> end, by |-> by, exhausted |-> start > end]
StepByItem(it) == IF it.exhausted THEN None ELSE it.cur
StepByAdvance(it) ==
    IF it.exhausted THEN it
    ELSE IF it.last - it.cur < it.by THEN [it EXCEPT !.exhausted = TRUE]
    ELSE [it EXCEPT !.cur = @ + it.by]

\* BlockRangeInclusiveIter::new: range.step_by(step as usize + 1).  With
\* step = u64::MAX the addition overflows: it panics, or wraps to 0 and
\* step_by(0) panics.
BlockRangeInclusiveIterNew(start, end, step) ==
    [iter |-> StepByNew(start, end, IF step = U64_MAX THEN 0 ELSE step + 1),
     step |-> step, end |-> end, panic |-> step = U64_MAX]

\* Option<(u64, u64)>::None.
NoRange == <<>>

\* The item of next() without the `start > end` check.
RangeItemUnguarded(start, end) == <<start, end>>

\* `if start > end { return None }  Some((start, end))`.
RangeItem(start, end) == IF start > end THEN NoRange ELSE <<start, end>>

\* `(start + self.step).min(self.end)` in a build without overflow checks.
BlockRangeEnd(start, it) == Min(WrappingAdd(start, it.step), it.end)

\* BlockRangeInclusiveIter::next.
BlockRangeNext(it, overflow_checks) ==
    IF StepByItem(it.iter) = None
    THEN [item |-> NoRange, it |-> it, panic |-> FALSE]
    ELSE IF overflow_checks /\ OverflowsAdd(StepByItem(it.iter), it.step)
    THEN [item |-> NoRange, it |-> [it EXCEPT !.iter = StepByAdvance(@)], panic |-> TRUE]
    ELSE [item |-> RangeItem(StepByItem(it.iter), BlockRangeEnd(StepByItem(it.iter), it)),
          it |-> [it EXCEPT !.iter = StepByAdvance(@)], panic |-> FALSE]

\* The loop over the headers of one range in get_logs_in_block_range: the
\* matching logs of each block are appended (a log is written as the number of
\* its block) and the size is checked after each block of a multi-block range.
\* `blocks` are the blocks of the range with matching logs, ascending.
\* The loop with a size check that ignores is_multi_block_range.
RECURSIVE AppendMatchingBlockLogsLimited(_, _, _, _, _)
AppendMatchingBlockLogsLimited(all_logs, blocks, logs_at, is_multi_block_range, max) ==
    IF blocks = <<>> THEN [all_logs |-> all_logs, exceeded |-> FALSE]
    ELSE IF Len(all_logs) + logs_at[Head(blocks)] > max
    THEN [all_logs |-> all_logs \o [i \in 1 .. logs_at[Head(blocks)] |-> Head(blocks)],
          exceeded |-> TRUE]
    ELSE AppendMatchingBlockLogsLimited(
             all_logs \o [i \in 1 .. logs_at[Head(blocks)] |-> Head(blocks)],
             Tail(blocks), logs_at, is_multi_block_range, max)

RECURSIVE AppendMatchingBlockLogs(_, _, _, _, _)
AppendMatchingBlockLogs(all_logs, blocks, logs_at, is_multi_block_range, max) ==
    IF blocks = <<>> THEN [all_logs |-> all_logs, exceeded |-> FALSE]
    ELSE IF is_multi_block_range /\ Len(all_logs) + logs_at[Head(blocks)] > max
    THEN [all_logs |-> all_logs \o [i \in 1 .. logs_at[Head(blocks)] |-> Head(blocks)],
          exceeded |-> TRUE]
    ELSE AppendMatchingBlockLogs(
             all_logs \o [i \in 1 .. logs_at[Head(blocks)] |-> Head(blocks)],
             Tail(blocks), logs_at, is_multi_block_range, max)

\* The blocks of an inclusive range that hold matching logs, ascending.
BlocksWithLogs(logs_at, range) ==
    SortedKeys({b \in DOMAIN logs_at : range[1] <= b /\ b <= range[2]})

\* ------------------------------------------------------------------ state
\* Sample hashed addresses (nibbles 1000 1010 1120 1122 1210 1220 2000): branch
\* nodes under a branch node, a leaf beside them, and a leaf after them all,
\* which closes the branch nodes before the end of the stream.
AccountKeys ==
    {PackPad(<<1, 0, 0, 0>>), PackPad(<<1, 0, 1, 0>>), PackPad(<<1, 1, 2, 0>>),
     PackPad(<<1, 1, 2, 2>>), PackPad(<<1, 2, 1, 0>>), PackPad(<<1, 2, 2, 0>>),
     PackPad(<<2, 0, 0, 0>>)}
\* The hashed address that may own storage, and its possible slots.
StorageAccount == PackPad(<<1, 1, 2, 0>>)
SlotKeys ==
    {PackPad(<<1, 0, 0, 0>>), PackPad(<<1, 0, 1, 0>>), PackPad(<<1, 0, 1, 1>>),
     PackPad(<<2, 0, 0, 0>>)}
InitialStorages ==
    {{}, {PackPad(<<1, 0, 0, 0>>)},
     {PackPad(<<1, 0, 0, 0>>), PackPad(<<1, 0, 1, 0>>), PackPad(<<1, 0, 1, 1>>)}}

VARIABLES
    \* The tables HashedAccount, HashedStorage, AccountsTrie, StoragesTrie.
    hashedAccounts, hashedStorage, accountsTrie, storagesTrie,
    \* The fields of StateRoot the caller configures.
    changed_account_prefixes, changed_storage_prefixes, destroyed_accounts,
    threshold, previous_state,
    \* The entry point called ("root", "root_with_updates", "root_with_progress"),
    \* the position of the call and the locals of StateRoot::calculate.
    entry, pc, retain_updates, calc,
    \* What the caller's loop has collected over the segments of one
    \* computation: the updates of each returned result, the walked counts, the
    \* keys handed to the account hash builder, the number of segments.
    segment_updates, walked_total, fed_total, segments,
    \* The number of changes applied to the hashed tables.
    changes

tables == <<hashedAccounts, hashedStorage, accountsTrie, storagesTrie>>
config == <<changed_account_prefixes, changed_storage_prefixes, destroyed_accounts>>
collected == <<segment_updates, walked_total, fed_total, segments>>
trie_vars == <<hashedAccounts, hashedStorage, accountsTrie, storagesTrie,
               changed_account_prefixes, changed_storage_prefixes, destroyed_accounts,
               threshold, previous_state, entry, pc, retain_updates, calc,
               segment_updates, walked_total, fed_total, segments, changes>>

VARIABLES
    \* Whether the build checks arithmetic overflow (it panics) or wraps.
    overflow_checks,
    \* The fields of EthFilterInner that bound a response.
    max_headers_range, max_logs_per_response,
    \* The iteration under way: who runs it (get_logs_in_block_range, or a
    \* direct user of BlockRangeInclusiveIter), its inclusive range and step and
    \* the matching logs per block; the iterator; the ranges it has emitted (for
    \* get_logs_in_block_range: the ranges passed to provider.headers_range);
    \* the logs collected; the position of the loop and the result of the call.
    range_call, range_iter, ranges, all_logs, range_pc, logs_result,
    \* ActiveFilters (id -> ActiveFilter), the id provider's next id, the
    \* clock (Instant::now), the best block number of the provider and the
    \* configured stale_filter_ttl.
    active_filters, next_id, now, best_number, stale_filter_ttl,
    \* The filter_changes request under way, and the response the step just
    \* taken has returned to its caller (NoResponse when it returned none).
    request, response,
    \* Per installed filter, the time of its installation or of the last
    \* filter_changes call that found it.
    polled_at,
    \* Per installed filter, the best block number read at its installation or
    \* by the last filter_changes call that returned its changes.
    polled_best,
    \* Per PendingTransaction filter, the hashes its receiver holds, and the
    \* number of transactions the pool has announced (the n-th has hash n).
    receivers, announced

range_vars == <<overflow_checks, max_headers_range, max_logs_per_response,
                range_call, range_iter, ranges, all_logs, range_pc, logs_result>>
filter_vars == <<active_filters, next_id, now, best_number, stale_filter_ttl,
                 request, response, polled_at, polled_best, receivers, announced>>
rpc_vars == <<range_vars, filter_vars>>
vars == <<trie_vars, range_vars, filter_vars>>

\* No iteration is under way.
NoRangeCall == [caller |-> "none", start |-> 0, end |-> 0, step |-> 0, logs_at |-> EmptyMap]
RangeIdle ==
    /\ overflow_checks = FALSE
    /\ max_headers_range = MAX_HEADERS_RANGE
    /\ max_logs_per_response = 0
    /\ range_call = NoRangeCall
    /\ range_iter = BlockRangeInclusiveIterNew(0, 0, 0)
    /\ ranges = <<>>
    /\ all_logs = <<>>
    /\ range_pc = "idle"
    /\ logs_result = "None"

\* No filter is installed and no request is under way.
NoRequest == [phase |-> "none", id |-> 0, best_number |-> 0, start_block |-> 0, kind |-> "None"]
NoResponse == [op |-> "none", id |-> 0, result |-> "None", from |-> 0, to |-> 0, hashes |-> <<>>]
FilterIdle ==
    /\ active_filters = EmptyMap
    /\ next_id = 1
    /\ now = 0
    /\ best_number = 0
    /\ stale_filter_ttl = 1
    /\ request = NoRequest
    /\ response = NoResponse
    /\ polled_at = EmptyMap
    /\ polled_best = EmptyMap
    /\ receivers = EmptyMap
    /\ announced = 0

\* What a calculate call reads, with the given threshold.
Env(th) ==
    [accounts |-> hashedAccounts, storage |-> hashedStorage,
     accounts_trie |-> accountsTrie, storages_trie |-> storagesTrie,
     changed_account_prefixes |-> changed_account_prefixes,
     changed_storage_prefixes |-> changed_storage_prefixes,
     destroyed_accounts |-> destroyed_accounts,
     threshold |-> th]


Init ==
    /\ \E S \in SUBSET AccountKeys :
           hashedAccounts = [k \in S |-> 1]
    /\ \E T \in InitialStorages :
           hashedStorage = IF T # {} /\ StorageAccount \in DOMAIN hashedAccounts
                           THEN [a \in {StorageAccount} |-> [k \in T |-> 1]]
                           ELSE EmptyMap
    /\ accountsTrie = EmptyMap
    /\ storagesTrie = EmptyMap
    /\ changed_account_prefixes = {}
    /\ changed_storage_prefixes = EmptyMap
    /\ destroyed_accounts = {}
    /\ threshold = DefaultThreshold
    /\ previous_state = NoState
    /\ entry = "none"
    /\ pc = "idle"
    /\ retain_updates = FALSE
    /\ calc = CalculateDropped
    /\ segment_updates = <<>>
    /\ walked_total = 0
    /\ fed_total = <<>>
    /\ segments = 0
    /\ changes = 0
    /\ RangeIdle
    /\ FilterIdle

\* ------------------------------------------------------------------ actions
\* The threshold a call runs with: root_with_updates replaces the configured
\* one (with_no_threshold), root and root_with_progress keep it.
EntryThreshold(e, th) ==
    IF e = "root_with_updates" THEN WithNoThreshold(Env(th)).threshold ELSE th

\* The caller builds a StateRoot (with_threshold) and calls root(),
\* root_with_updates() or root_with_progress(): calculate runs up to its loop.
Begin(e, th) ==
    /\ pc = "idle"
    /\ entry' = e
    /\ threshold' = EntryThreshold(e, th)
    /\ previous_state' = NoState
    /\ retain_updates' = (e # "root")
    /\ calc' = CalculateBegin(Env(EntryThreshold(e, th)), NoState, e # "root")
    /\ pc' = "loop"
    /\ segment_updates' = <<>>
    /\ walked_total' = 0
    /\ fed_total' = <<>>
    /\ segments' = 0
    /\ UNCHANGED <<tables, config, changes>>
    /\ UNCHANGED rpc_vars

\* The call fails: the caller gets the error and gives the computation up.
Failed(c) ==
    /\ calc' = c
    /\ pc' = "error"
    /\ segment_updates' = <<>>
    /\ walked_total' = 0
    /\ fed_total' = <<>>
    /\ segments' = 0

\* Opening the cursors of calculate fails.
BeginFails(e, th) ==
    /\ pc = "idle"
    /\ entry' = e
    /\ threshold' = EntryThreshold(e, th)
    /\ previous_state' = NoState
    /\ retain_updates' = (e # "root")
    /\ Failed(CalculateError(calc))
    /\ UNCHANGED <<tables, config, changes>>
    /\ UNCHANGED rpc_vars

\* The locals after one pass of the loop are `c`: the call goes on, panics or
\* returns, and the caller's loop adds a returned result to what it collected.
IterationTo(c) ==
    /\ calc' = c
    /\ fed_total' = fed_total \o SubSeq(c.fed, Len(calc.fed) + 1, Len(c.fed))
    /\ pc' = IF c.panic THEN "panicked"
             ELSE IF c.result.kind # "None" THEN "returned" ELSE "loop"
    /\ IF ~c.panic /\ c.result.kind # "None"
       THEN /\ segment_updates' = Append(segment_updates, c.result.updates)
            /\ walked_total' = walked_total + c.result.walked
            /\ segments' = segments + 1
       ELSE UNCHANGED <<segment_updates, walked_total, segments>>

\* A pass of the loop that writes its account-trie updates to the store.
IterationWriting ==
    /\ pc = "loop"
    /\ IterationTo(CalculateIteration(calc, Env(threshold), retain_updates))
    /\ accountsTrie' = FlushAccountsTrie(accountsTrie, calc'.trie_updates)
    /\ UNCHANGED <<hashedAccounts, hashedStorage, storagesTrie, config, threshold,
                   previous_state, entry, retain_updates, changes>>
    /\ UNCHANGED rpc_vars

\* One pass of the loop of calculate.
Iteration ==
    /\ pc = "loop"
    /\ IterationTo(CalculateIteration(calc, Env(threshold), retain_updates))
    /\ UNCHANGED <<tables, config, threshold, previous_state, entry, retain_updates, changes>>
    /\ UNCHANGED rpc_vars

\* A pass of the loop fails: try_next returns an error, or the storage root of
\* the account of the next leaf does.
IterationFails(point) ==
    /\ pc = "loop"
    /\ point = "storage_root" =>
           NodeIterTryNext(calc.account_node_iter, hashedAccounts, accountsTrie).node.kind
               = "Leaf"
    /\ Failed(CalculateError(calc))
    /\ UNCHANGED <<tables, config, threshold, previous_state, entry, retain_updates, changes>>
    /\ UNCHANGED rpc_vars

\* The caller's loop over root_with_progress: the returned snapshot goes into
\* the next call (with_intermediate_state), with the same configuration.
Resume ==
    /\ pc = "returned"
    /\ entry = "root_with_progress"
    /\ calc.result.kind = "Progress"
    /\ previous_state' = calc.result.state
    /\ calc' = CalculateBegin(Env(threshold), calc.result.state, TRUE)
    /\ pc' = "loop"
    /\ UNCHANGED <<tables, config, threshold, entry, retain_updates, collected, changes>>
    /\ UNCHANGED rpc_vars

\* Opening the cursors of the resumed call fails.
ResumeFails ==
    /\ pc = "returned"
    /\ entry = "root_with_progress"
    /\ calc.result.kind = "Progress"
    /\ previous_state' = calc.result.state
    /\ Failed(CalculateError(calc))
    /\ UNCHANGED <<tables, config, threshold, entry, retain_updates, changes>>
    /\ UNCHANGED rpc_vars

\* The caller drops the result: a root without updates, a computation it does
\* not persist, or an error.
Discard ==
    /\ \/ pc = "returned" /\ calc.result.kind = "Complete"
       \/ pc = "error"
    /\ pc' = "idle"
    /\ UNCHANGED <<tables, config, threshold, previous_state, entry, retain_updates, calc,
                   collected, changes>>
    /\ UNCHANGED rpc_vars

RECURSIVE FlushAllAccounts(_, _)
FlushAllAccounts(trie, ups) ==
    IF ups = <<>> THEN trie
    ELSE FlushAllAccounts(FlushAccountsTrie(trie, Head(ups)), Tail(ups))

RECURSIVE FlushAllStorage(_, _, _)
FlushAllStorage(addr, trie, ups) ==
    IF ups = <<>> THEN trie
    ELSE FlushAllStorage(addr, FlushStorageTrieOf(addr, trie, Head(ups)), Tail(ups))

\* The addresses the StoragesTrie operations of the updates touch.
TouchedAddresses(ups) ==
    {k.addr : k \in {j \in UNION {DOMAIN ups[i] : i \in 1 .. Len(ups)} :
                        j.kind # "AccountNode"}}

\* The caller flushes the updates of every segment of a completed computation,
\* in the order they were returned; the change sets start afresh.
Flush ==
    /\ pc = "returned"
    /\ calc.result.kind = "Complete"
    /\ retain_updates
    /\ accountsTrie' = FlushAllAccounts(accountsTrie, segment_updates)
    /\ storagesTrie' =
           LET addrs == (DOMAIN storagesTrie) \cup TouchedAddresses(segment_updates)
               flushed == [a \in addrs |->
                              FlushAllStorage(a, EntriesOf(storagesTrie, a), segment_updates)]
               kept == {a \in addrs : DOMAIN flushed[a] # {}}
           IN  [a \in kept |-> flushed[a]]
    /\ changed_account_prefixes' = {}
    /\ changed_storage_prefixes' = EmptyMap
    /\ destroyed_accounts' = {}
    /\ pc' = "idle"
    /\ UNCHANGED <<hashedAccounts, hashedStorage, threshold, previous_state, entry,
                   retain_updates, calc, collected, changes>>
    /\ UNCHANGED rpc_vars

\* Changes are tracked against persisted trie nodes: before the first flush
\* every computation is a computation from scratch.
NodesPersisted == accountsTrie # EmptyMap \/ storagesTrie # EmptyMap

\* A state transition upserts one hashed account; its key joins the changed
\* account prefixes.
UpsertAccount(k) ==
    /\ pc = "idle"
    /\ changes < MaxChanges
    /\ NodesPersisted
    /\ hashedAccounts' = MapPut(hashedAccounts, k,
                                IF k \in DOMAIN hashedAccounts
                                THEN 3 - hashedAccounts[k] ELSE 1)
    /\ changed_account_prefixes' = changed_account_prefixes \cup {k}
    /\ changes' = changes + 1
    /\ UNCHANGED <<hashedStorage, accountsTrie, storagesTrie, changed_storage_prefixes,
                   destroyed_accounts, threshold, previous_state, entry, pc, retain_updates,
                   calc, collected>>
    /\ UNCHANGED rpc_vars

\* A state transition deletes one hashed account and its storage; it joins the
\* destroyed accounts.
DeleteAccount(k) ==
    /\ pc = "idle"
    /\ changes < MaxChanges
    /\ NodesPersisted
    /\ k \in DOMAIN hashedAccounts
    /\ hashedAccounts' = [a \in (DOMAIN hashedAccounts) \ {k} |-> hashedAccounts[a]]
    /\ hashedStorage' = [a \in (DOMAIN hashedStorage) \ {k} |-> hashedStorage[a]]
    /\ changed_account_prefixes' = changed_account_prefixes \cup {k}
    /\ destroyed_accounts' = destroyed_accounts \cup {k}
    /\ changes' = changes + 1
    /\ UNCHANGED <<accountsTrie, storagesTrie, changed_storage_prefixes, threshold,
                   previous_state, entry, pc, retain_updates, calc, collected>>
    /\ UNCHANGED rpc_vars

\* A state transition deletes every storage slot of the storage account; the
\* slots join its changed storage prefixes, the address the changed account
\* prefixes.
ClearStorage ==
    /\ pc = "idle"
    /\ changes < MaxChanges
    /\ NodesPersisted
    /\ StorageAccount \in DOMAIN hashedStorage
    /\ hashedStorage' = [a \in (DOMAIN hashedStorage) \ {StorageAccount} |-> hashedStorage[a]]
    /\ changed_storage_prefixes' =
           MapPut(changed_storage_prefixes, StorageAccount,
                  EntriesOfSet(changed_storage_prefixes, StorageAccount)
                      \cup DOMAIN hashedStorage[StorageAccount])
    /\ changed_account_prefixes' = changed_account_prefixes \cup {StorageAccount}
    /\ changes' = changes + 1
    /\ UNCHANGED <<hashedAccounts, accountsTrie, storagesTrie, destroyed_accounts, threshold,
                   previous_state, entry, pc, retain_updates, calc, collected>>
    /\ UNCHANGED rpc_vars

\* A state transition inserts or overwrites one storage slot of the storage
\* account; the slot joins its changed storage prefixes, the address the
\* changed account prefixes.
UpsertSlot(slot) ==
    /\ pc = "idle"
    /\ changes < MaxChanges
    /\ NodesPersisted
    /\ StorageAccount \in DOMAIN hashedAccounts
    /\ LET old == EntriesOf(hashedStorage, StorageAccount)
       IN  hashedStorage' = MapPut(hashedStorage, StorageAccount,
               MapPut(old, slot, IF slot \in DOMAIN old THEN 3 - old[slot] ELSE 1))
    /\ changed_storage_prefixes' =
           MapPut(changed_storage_prefixes, StorageAccount,
                  EntriesOfSet(changed_storage_prefixes, StorageAccount) \cup {slot})
    /\ changed_account_prefixes' = changed_account_prefixes \cup {StorageAccount}
    /\ changes' = changes + 1
    /\ UNCHANGED <<hashedAccounts, accountsTrie, storagesTrie, destroyed_accounts, threshold,
                   previous_state, entry, pc, retain_updates, calc, collected>>
    /\ UNCHANGED rpc_vars

Next ==
    \/ \E e \in {"root", "root_with_updates", "root_with_progress"} :
           \E th \in 0 .. MaxThreshold : Begin(e, th)
    \/ \E e \in {"root", "root_with_updates", "root_with_progress"} :
           \E th \in 0 .. MaxThreshold : BeginFails(e, th)
    \/ Iteration
    \/ \E point \in {"try_next", "storage_root"} : IterationFails(point)
    \/ Resume
    \/ ResumeFails
    \/ Discard
    \/ Flush
    \/ \E k \in AccountKeys : UpsertAccount(k)
    \/ \E k \in AccountKeys : DeleteAccount(k)
    \/ \E slot \in SlotKeys : UpsertSlot(slot)
    \/ ClearStorage

Spec == Init /\ [][Next]_vars

\* ------------------------------------------------------------------ block range actions
\* No state-root computation: empty tables, no call under way.
StateRootIdle ==
    /\ hashedAccounts = EmptyMap
    /\ hashedStorage = EmptyMap
    /\ accountsTrie = EmptyMap
    /\ storagesTrie = EmptyMap
    /\ changed_account_prefixes = {}
    /\ changed_storage_prefixes = EmptyMap
    /\ destroyed_accounts = {}
    /\ threshold = DefaultThreshold
    /\ previous_state = NoState
    /\ entry = "none"
    /\ pc = "idle"
    /\ retain_updates = FALSE
    /\ calc = CalculateDropped
    /\ segment_updates = <<>>
    /\ walked_total = 0
    /\ fed_total = <<>>
    /\ segments = 0
    /\ changes = 0

\* Sample ranges of a direct iteration: starts at both ends of u64, ends at
\* most MaxSpan further, steps up to MaxStep and u64::MAX.
RangeStarts == (0 .. 1) \cup {U64_MAX - d : d \in 0 .. MaxSpan}
RangeEnds(start) == {start + d : d \in {e \in 0 .. MaxSpan : ~OverflowsAdd(start, e)}}
RangeSteps == (0 .. MaxStep) \cup {U64_MAX}

\* Sample block ranges of get_logs_in_block_range and sample chains: the
\* number of matching logs per block, for the blocks that have any.
BlockSamples ==
    {0, 1, MAX_HEADERS_RANGE - 1, MAX_HEADERS_RANGE, MAX_HEADERS_RANGE + 1,
     2 * MAX_HEADERS_RANGE + 2}
LogSamples ==
    {EmptyMap,
     [b \in {0} |-> MaxLogs + 1],
     [b \in {0, 1, MAX_HEADERS_RANGE} |-> 1],
     [b \in {MAX_HEADERS_RANGE + 1, 2 * MAX_HEADERS_RANGE + 2} |-> IF b > MAX_HEADERS_RANGE + 1 THEN 2 ELSE 1]}

RangeInit ==
    /\ StateRootIdle
    /\ FilterIdle
    /\ overflow_checks \in BOOLEAN
    /\ max_headers_range = MAX_HEADERS_RANGE
    /\ max_logs_per_response \in 0 .. MaxLogs
    /\ range_call = NoRangeCall
    /\ range_iter = BlockRangeInclusiveIterNew(0, 0, 0)
    /\ ranges = <<>>
    /\ all_logs = <<>>
    /\ range_pc = "idle"
    /\ logs_result = "None"

\* An iteration starts: the iterator is built.
RangeStart(call) ==
    /\ range_call' = call
    /\ range_iter' = BlockRangeInclusiveIterNew(call.start, call.end, call.step)
    /\ range_pc' = IF call.step = U64_MAX THEN "panicked" ELSE "iterating"
    /\ ranges' = <<>>
    /\ all_logs' = <<>>
    /\ logs_result' = "None"
    /\ UNCHANGED <<overflow_checks, max_headers_range, max_logs_per_response>>
    /\ UNCHANGED <<trie_vars, filter_vars>>

\* BlockRangeInclusiveIter::new(start..=end, step) used directly, start <= end.
RangeIterNew(start, end, step) ==
    /\ range_pc = "idle"
    /\ start <= end
    /\ RangeStart([caller |-> "iter", start |-> start, end |-> end, step |-> step,
                   logs_at |-> EmptyMap])

\* get_logs_in_block_range(filter, from_block, to_block) up to its loop.
GetLogsInBlockRange(from_block, to_block, logs_at) ==
    /\ range_pc = "idle"
    /\ RangeStart([caller |-> "get_logs_in_block_range", start |-> from_block,
                   end |-> to_block, step |-> max_headers_range, logs_at |-> logs_at])

\* The body of the loop that goes on when the size check has failed.
RangeLogsUnlimited(l) ==
    /\ all_logs' = l.all_logs
    /\ range_pc' = "iterating"
    /\ logs_result' = "None"

\* The body of the loop of get_logs_in_block_range for one emitted range:
\* `l` is the result of the loop over its headers.
RangeLogs(l) ==
    /\ all_logs' = IF l.exceeded THEN <<>> ELSE l.all_logs
    /\ range_pc' = IF l.exceeded THEN "finished" ELSE "iterating"
    /\ logs_result' = IF l.exceeded THEN "QueryExceedsMaxResults" ELSE "None"

\* The iteration goes on with the result `r` of next(): it panics, ends, or
\* emits a range, which get_logs_in_block_range passes to headers_range.
RangeIterTo(r) ==
    /\ range_iter' = r.it
    /\ IF r.panic
       THEN /\ range_pc' = "panicked"
            /\ UNCHANGED <<ranges, all_logs, logs_result>>
       ELSE IF r.item = NoRange
       THEN /\ range_pc' = "finished"
            /\ logs_result' = IF range_call.caller = "iter" THEN "None" ELSE "Ok"
            /\ UNCHANGED <<ranges, all_logs>>
       ELSE /\ ranges' = Append(ranges, r.item)
            /\ IF range_call.caller = "iter"
               THEN /\ range_pc' = "iterating"
                    /\ UNCHANGED <<all_logs, logs_result>>
               ELSE RangeLogs(AppendMatchingBlockLogs(all_logs,
                        BlocksWithLogs(range_call.logs_at, r.item), range_call.logs_at,
                        range_call.start # range_call.end, max_logs_per_response))

\* One pass of the `for (from, to) in BlockRangeInclusiveIter` loop.
RangeIterNext ==
    /\ range_pc = "iterating"
    /\ RangeIterTo(BlockRangeNext(range_iter, overflow_checks))
    /\ UNCHANGED <<overflow_checks, max_headers_range, max_logs_per_response, range_call>>
    /\ UNCHANGED <<trie_vars, filter_vars>>

\* provider.headers_range or block_and_receipts_by_number returns an error:
\* get_logs_in_block_range returns it.
GetLogsFails ==
    /\ range_pc = "iterating"
    /\ range_call.caller = "get_logs_in_block_range"
    /\ BlockRangeNext(range_iter, overflow_checks).item # NoRange
    /\ range_pc' = "finished"
    /\ logs_result' = "EthAPIError"
    /\ all_logs' = <<>>
    /\ UNCHANGED <<overflow_checks, max_headers_range, max_logs_per_response, range_call,
                   range_iter, ranges>>
    /\ UNCHANGED <<trie_vars, filter_vars>>

\* The caller is done with the iteration.
RangeReturn ==
    /\ range_pc \in {"finished", "panicked"}
    /\ range_pc' = "idle"
    /\ range_call' = NoRangeCall
    /\ range_iter' = BlockRangeInclusiveIterNew(0, 0, 0)
    /\ ranges' = <<>>
    /\ all_logs' = <<>>
    /\ logs_result' = "None"
    /\ UNCHANGED <<overflow_checks, max_headers_range, max_logs_per_response>>
    /\ UNCHANGED <<trie_vars, filter_vars>>

RangeNext ==
    \/ \E start \in RangeStarts : \E end \in RangeEnds(start) : \E step \in RangeSteps :
           RangeIterNew(start, end, step)
    \/ \E from_block \in BlockSamples : \E to_block \in BlockSamples :
           \E logs_at \in LogSamples : GetLogsInBlockRange(from_block, to_block, logs_at)
    \/ RangeIterNext
    \/ GetLogsFails
    \/ RangeReturn

RangeSpec == RangeInit /\ [][RangeNext]_vars

\* ------------------------------------------------------------------ filter actions
\* FilterKind. A Log filter is the default Filter: a block range with neither
\* end set.
FilterKinds == {"Log", "Block", "PendingTransaction"}
FilterIds == 1 .. MaxFilters

ActiveFilter(block, last_poll_timestamp, kind) == [block |-> block, last_poll_timestamp |-> last_poll_timestamp, kind |-> kind]

Restrict(m, keys) == [x \in (DOMAIN m) \cap keys |-> m[x]]

\* The predicate of the retain call of clear_stale_filters.
IsValid(filter, at, ttl) == (at - filter.last_poll_timestamp) < ttl

ClearStaleFiltersRetain(filters, at, ttl) == Restrict(filters, {id \in DOMAIN filters : IsValid(filters[id], at, ttl)})

\* The block of filter_changes that holds the lock: the filter is looked up,
\* the call returns Empty when no block was added since the last poll, and
\* otherwise the filter's block and timestamp are advanced.
FilterChangesLookup(filters, id, best, at) ==
    IF id \notin DOMAIN filters
        THEN [filters |-> filters, outcome |-> "FilterNotFound", start_block |-> 0, kind |-> "None"]
    ELSE IF filters[id].block > best
        THEN [filters |-> filters, outcome |-> "Empty", start_block |-> 0, kind |-> "None"]
    ELSE [filters |-> [filters EXCEPT ![id] = ActiveFilter(best + 1, at, filters[id].kind)],
          outcome |-> "Found", start_block |-> filters[id].block, kind |-> filters[id].kind]

\* The hashes of the blocks start .. end (the hash of block n is n).
RECURSIVE CanonicalHashesRange(_, _)
CanonicalHashesRange(start, end) == IF start >= end THEN <<>> ELSE <<start>> \o CanonicalHashesRange(start + 1, end)

\* The receivers that are still referenced: those of the installed filters
\* and the one the filter_changes call under way has cloned.
HeldReceivers(filters, req) == (DOMAIN filters) \cup (IF req.phase = "fetch" THEN {req.id} ELSE {})

FilterInit ==
    /\ StateRootIdle
    /\ RangeIdle
    /\ active_filters = EmptyMap
    /\ next_id = 1
    /\ now = 0
    /\ best_number = 0
    /\ stale_filter_ttl = MaxTtl
    /\ request = NoRequest
    /\ response = NoResponse
    /\ polled_at = EmptyMap
    /\ polled_best = EmptyMap
    /\ receivers = EmptyMap
    /\ announced = 0

\* install_filter, called by new_filter, new_block_filter and
\* new_pending_transaction_filter.
InstallFilter(kind) ==
    /\ next_id <= MaxFilters
    /\ active_filters' = MapPut(active_filters, next_id, ActiveFilter(best_number, now, kind))
    /\ next_id' = next_id + 1
    /\ polled_at' = MapPut(polled_at, next_id, now)
    /\ polled_best' = MapPut(polled_best, next_id, best_number)
    /\ receivers' = IF kind = "PendingTransaction" THEN MapPut(receivers, next_id, <<>>) ELSE receivers
    /\ response' = [NoResponse EXCEPT !.op = "install_filter", !.id = next_id, !.result = "Id"]
    /\ UNCHANGED <<now, best_number, stale_filter_ttl, request, announced>>
    /\ UNCHANGED <<trie_vars, range_vars>>

\* filter_changes is called and reads the chain info.
FilterChanges(id) ==
    /\ request.phase = "none"
    /\ request' = [NoRequest EXCEPT !.phase = "chain_info", !.id = id, !.best_number = best_number]
    /\ response' = NoResponse
    /\ UNCHANGED <<active_filters, next_id, now, best_number, stale_filter_ttl, polled_at, polled_best, receivers, announced>>
    /\ UNCHANGED <<trie_vars, range_vars>>

\* filter_changes takes the lock and looks the filter up.
FilterChangesLocked ==
    /\ request.phase = "chain_info"
    /\ LET r == FilterChangesLookup(active_filters, request.id, request.best_number, now)
       IN  /\ active_filters' = r.filters
           /\ polled_at' = IF r.outcome = "FilterNotFound" THEN polled_at ELSE MapPut(polled_at, request.id, now)
           /\ polled_best' = IF r.outcome = "Found" THEN MapPut(polled_best, request.id, request.best_number) ELSE polled_best
           /\ IF r.outcome = "Found"
                  THEN /\ request' = [request EXCEPT !.phase = "fetch", !.start_block = r.start_block, !.kind = r.kind]
                       /\ response' = NoResponse
                  ELSE /\ request' = NoRequest
                       /\ response' = [NoResponse EXCEPT !.op = "filter_changes", !.id = request.id, !.result = r.outcome]
    /\ UNCHANGED <<next_id, now, best_number, stale_filter_ttl, receivers, announced>>
    /\ UNCHANGED <<trie_vars, range_vars>>

\* filter_changes collects the changes of the filter's kind and returns them.
FilterChangesFetch ==
    /\ request.phase = "fetch"
    /\ response' = [op |-> "filter_changes", id |-> request.id,
                    result |-> IF request.kind = "Log" THEN "Logs" ELSE "Hashes",
                    from |-> IF request.kind = "PendingTransaction" THEN 0 ELSE request.start_block,
                    to |-> IF request.kind = "PendingTransaction" THEN 0 ELSE request.best_number,
                    hashes |-> IF request.kind = "PendingTransaction" THEN receivers[request.id]
                               ELSE IF request.kind = "Block" THEN CanonicalHashesRange(request.start_block, request.best_number + 1)
                               ELSE <<>>]
    /\ receivers' = Restrict(IF request.kind = "PendingTransaction" THEN [receivers EXCEPT ![request.id] = <<>>] ELSE receivers, DOMAIN active_filters)
    /\ request' = NoRequest
    /\ UNCHANGED <<active_filters, next_id, now, best_number, stale_filter_ttl, polled_at, polled_best, announced>>
    /\ UNCHANGED <<trie_vars, range_vars>>

\* The provider fails: chain_info at the start of filter_changes, or
\* canonical_hashes_range or get_logs_in_block_range at its end.
FilterChangesFails ==
    /\ \/ request.phase = "chain_info"
       \/ request.phase = "fetch" /\ request.kind \in {"Block", "Log"}
    /\ response' = [NoResponse EXCEPT !.op = "filter_changes", !.id = request.id, !.result = "Err"]
    /\ request' = NoRequest
    /\ UNCHANGED <<active_filters, next_id, now, best_number, stale_filter_ttl, polled_at, polled_best, receivers, announced>>
    /\ UNCHANGED <<trie_vars, range_vars>>

\* filter_logs without the test of the filter's kind.
FilterLogsAnyKind(id, ok) ==
    /\ response' = [NoResponse EXCEPT !.op = "filter_logs", !.id = id,
                    !.result = IF id \notin DOMAIN active_filters THEN "FilterNotFound"
                               ELSE IF ok THEN "Logs" ELSE "Err"]
    /\ UNCHANGED <<active_filters, next_id, now, best_number, stale_filter_ttl, request, polled_at, polled_best, receivers, announced>>
    /\ UNCHANGED <<trie_vars, range_vars>>

\* filter_logs: the logs of an installed Log filter (ok), or the error of
\* logs_for_filter.
FilterLogs(id, ok) ==
    /\ response' = [NoResponse EXCEPT !.op = "filter_logs", !.id = id,
                    !.result = IF id \notin DOMAIN active_filters THEN "FilterNotFound"
                               ELSE IF active_filters[id].kind # "Log" THEN "FilterNotFound"
                               ELSE IF ok THEN "Logs" ELSE "Err"]
    /\ UNCHANGED <<active_filters, next_id, now, best_number, stale_filter_ttl, request, polled_at, polled_best, receivers, announced>>
    /\ UNCHANGED <<trie_vars, range_vars>>

\* uninstall_filter that answers without removing the filter.
UninstallFilterKeeps(id) ==
    /\ response' = [NoResponse EXCEPT !.op = "uninstall_filter", !.id = id,
                    !.result = IF id \in DOMAIN active_filters THEN "true" ELSE "false"]
    /\ UNCHANGED <<active_filters, next_id, now, best_number, stale_filter_ttl, request, polled_at, polled_best, receivers, announced>>
    /\ UNCHANGED <<trie_vars, range_vars>>

\* uninstall_filter.
UninstallFilter(id) ==
    /\ active_filters' = Restrict(active_filters, (DOMAIN active_filters) \ {id})
    /\ polled_at' = Restrict(polled_at, DOMAIN active_filters')
    /\ polled_best' = Restrict(polled_best, DOMAIN active_filters')
    /\ receivers' = Restrict(receivers, HeldReceivers(active_filters', request))
    /\ response' = [NoResponse EXCEPT !.op = "uninstall_filter", !.id = id,
                    !.result = IF id \in DOMAIN active_filters THEN "true" ELSE "false"]
    /\ UNCHANGED <<next_id, now, best_number, stale_filter_ttl, request, announced>>
    /\ UNCHANGED <<trie_vars, range_vars>>

\* clear_stale_filters(Instant::now()), as watch_and_clear_stale_filters
\* calls it.
ClearStaleFilters ==
    /\ active_filters' = ClearStaleFiltersRetain(active_filters, now, stale_filter_ttl)
    /\ polled_at' = Restrict(polled_at, DOMAIN active_filters')
    /\ polled_best' = Restrict(polled_best, DOMAIN active_filters')
    /\ receivers' = Restrict(receivers, HeldReceivers(active_filters', request))
    /\ response' = NoResponse
    /\ UNCHANGED <<next_id, now, best_number, stale_filter_ttl, request, announced>>
    /\ UNCHANGED <<trie_vars, range_vars>>

\* The clock advances.
Tick ==
    /\ now < MaxTime
    /\ now' = now + 1
    /\ response' = NoResponse
    /\ UNCHANGED <<active_filters, next_id, best_number, stale_filter_ttl, request, polled_at, polled_best, receivers, announced>>
    /\ UNCHANGED <<trie_vars, range_vars>>

\* The chain grows by a block.
NewBlock ==
    /\ best_number < MaxBlock
    /\ best_number' = best_number + 1
    /\ response' = NoResponse
    /\ UNCHANGED <<active_filters, next_id, now, stale_filter_ttl, request, polled_at, polled_best, receivers, announced>>
    /\ UNCHANGED <<trie_vars, range_vars>>

\* The pool announces a pending transaction to every listener.
PoolSends ==
    /\ announced < MaxPending
    /\ announced' = announced + 1
    /\ receivers' = [id \in DOMAIN receivers |-> Append(receivers[id], announced + 1)]
    /\ response' = NoResponse
    /\ UNCHANGED <<active_filters, next_id, now, best_number, stale_filter_ttl, request, polled_at, polled_best>>
    /\ UNCHANGED <<trie_vars, range_vars>>

FilterNext ==
    \/ \E kind \in FilterKinds : InstallFilter(kind)
    \/ \E id \in FilterIds : FilterChanges(id)
    \/ FilterChangesLocked
    \/ FilterChangesFetch
    \/ FilterChangesFails
    \/ \E id \in FilterIds : \E ok \in BOOLEAN : FilterLogs(id, ok)
    \/ \E id \in FilterIds : UninstallFilter(id)
    \/ ClearStaleFilters
    \/ Tick
    \/ NewBlock
    \/ PoolSends

FilterSpec == FilterInit /\ [][FilterNext]_vars

\* ------------------------------------------------------------------ properties
\* The computation has returned Complete.
Done == pc = "returned" /\ calc.result.kind = "Complete"

\* A calculate call is under way or has returned.
Computing == pc \in {"loop", "returned"}

\* No trie node is persisted and no change is tracked: a state from scratch.
FromScratch ==
    /\ accountsTrie = EmptyMap
    /\ storagesTrie = EmptyMap
    /\ changed_account_prefixes = {}
    /\ changed_storage_prefixes = EmptyMap

\* One single-pass root_with_updates on the same tables and prefix sets.
SinglePass == RootWithUpdates(Env(threshold)).result

\* The updates of the segments merged in segment order, last write wins.
RECURSIVE MergeUpdates(_)
MergeUpdates(ups) ==
    IF ups = <<>> THEN EmptyMap
    ELSE MapExtend(MergeUpdates(SubSeq(ups, 1, Len(ups) - 1)), ups[Len(ups)])

\* The reference root over the hashed storage of one account and over the
\* hashed accounts, each account encoded with its reference storage root.
ReferenceStorageRoot(a) ==
    RefRoot([k \in DOMAIN EntriesOf(hashedStorage, a) |->
                StorageValueRlp(hashedStorage[a][k])])
ReferenceRoot ==
    RefRoot([a \in DOMAIN hashedAccounts |->
                AccountRlp(hashedAccounts[a], ReferenceStorageRoot(a))])

\* The nibble paths of a set of hashed keys in ascending order.
SortedPaths(S) == [i \in 1 .. Cardinality(S) |-> Unpack(SortedKeys(S)[i])]

\* A cached hash was used: a key shorter than a hashed key was fed.
BranchFed(fed) == \E i \in 1 .. Len(fed) : Len(fed[i]) < KeyLen

C3_IncrementalStorageRoot ==
    /\ entry = "root"
    /\ Computing
    /\ calc.hashed_address = StorageAccount
    /\ \E slot \in SlotKeys :
           changed_storage_prefixes = [a \in {StorageAccount} |-> {slot}]
    => calc.storage_root =
           StorageRootCalculate(StorageAccount, EntriesOf(hashedStorage, StorageAccount),
                                EmptyMap, PrefixSetOf({}), FALSE).root

\* Witness of C3: the incremental storage root reused a persisted hash.
C3_Witness ==
    /\ entry = "root"
    /\ Computing
    /\ calc.hashed_address = StorageAccount
    /\ \E slot \in SlotKeys :
           changed_storage_prefixes = [a \in {StorageAccount} |-> {slot}]
    /\ StorageAccount \in DOMAIN storagesTrie
    /\ BranchFed(calc.storage_fed)

C6_WalkedConservation ==
    entry = "root_with_progress" /\ Done /\ FromScratch =>
        walked_total = Cardinality(DOMAIN hashedAccounts)
                       + Cardinality(DOMAIN EntriesOf(hashedStorage, StorageAccount))

\* Witness of C6: a computation over accounts and slots completed after
\* several suspensions.
C6_Witness ==
    /\ entry = "root_with_progress"
    /\ Done
    /\ FromScratch
    /\ segments >= 3
    /\ Cardinality(DOMAIN EntriesOf(hashedStorage, StorageAccount)) >= 2

C8_RootWithUpdatesCompletes ==
    entry = "root_with_updates" =>
        /\ threshold = U64_MAX
        /\ pc # "panicked"
        /\ pc = "returned" => calc.result.kind = "Complete"

\* Witness of C8: root_with_updates returned with more updates than the
\* thresholds a caller configures here.
C8_Witness ==
    /\ entry = "root_with_updates"
    /\ Done
    /\ Cardinality(DOMAIN calc.result.updates) > MaxThreshold

\* C9: root() always ends in Complete.  For every configured threshold, 0
\* included, the call does not panic and returns Complete, never Progress.
C9_RootCompletes ==
    entry = "root" =>
        /\ pc # "panicked"
        /\ pc = "returned" => calc.result.kind = "Complete"

\* Witness of C9: root() has returned over several accounts with threshold 0.
C9_Witness ==
    /\ entry = "root"
    /\ Done
    /\ threshold = 0
    /\ Cardinality(DOMAIN hashedAccounts) >= 2

\* The three counts of the threshold rule: the coordinator's (storage) updates,
\* the walker's pending deletes, the hash builder's pending branch nodes.
PendingUpdates(c) ==
    Cardinality({k \in DOMAIN c.trie_updates : k.kind # "AccountNode"})
    + WalkerUpdatesLen(c.account_node_iter.walker) + HbUpdatesLen(c.hash_builder)

\* A pass of the loop has added an account leaf to the hash builder.
LeafAdded ==
    /\ pc = "loop"
    /\ calc'.hashed_entries_walked > calc.hashed_entries_walked
    /\ ~calc'.panic

\* C10: threshold rule.  In retain-updates mode, after an account leaf was
\* added, the call returns Progress if and only if the coordinator's updates
\* plus the walker's plus the hash builder's pending updates reach the
\* threshold; otherwise it goes on with the next node.
C10_ThresholdRule ==
    [][LeafAdded /\ retain_updates =>
           IF PendingUpdates(calc') >= threshold
           THEN pc' = "returned" /\ calc'.result.kind = "Progress"
           ELSE pc' = "loop" /\ calc'.result.kind = "None"]_vars

\* Witness of C10: Progress was returned at threshold 2 after more than one
\* leaf, the first of which did not reach the threshold.
C10_Witness ==
    /\ entry = "root_with_progress"
    /\ pc = "returned"
    /\ calc.result.kind = "Progress"
    /\ threshold = 2
    /\ segments = 1
    /\ calc.hashed_entries_walked >= 2

\* C11: suspension only at a leaf boundary.  A pass of the loop that returns
\* Progress has handled an account leaf, never a Branch node, so the Progress
\* result carries a walked count of at least 1.
C11_SuspendAtLeaf ==
    [][pc = "loop" /\ calc'.result.kind = "Progress" =>
           /\ calc'.hashed_entries_walked > calc.hashed_entries_walked
           /\ Len(calc'.fed) = Len(calc.fed) + 1
           /\ Len(calc'.fed[Len(calc'.fed)]) = KeyLen
           /\ calc'.result.walked >= 1]_vars

\* Witness of C11: at threshold 0 a segment handled a Branch node and was
\* suspended only after the leaf that followed.
C11_Witness ==
    /\ pc = "returned"
    /\ calc.result.kind = "Progress"
    /\ threshold = 0
    /\ BranchFed(calc.fed)

\* C12: empty-storage short circuit.  For a hashed address without hashed
\* storage entries StorageRoot::root() returns EMPTY_ROOT_HASH and
\* root_with_updates() returns (EMPTY_ROOT_HASH, 0, updates), the updates being
\* exactly StorageTrie(hashed_address) -> Delete, whatever the changed prefixes
\* and the persisted storage-trie nodes of the address.
C12_EmptyStorageShortCircuit ==
    \A a \in AccountKeys :
        DOMAIN EntriesOf(hashedStorage, a) = {} =>
            \A r \in BOOLEAN :
                /\ LeafStorageRoot(Env(threshold), r, a).root = EMPTY_ROOT_HASH
                /\ LeafStorageRoot(Env(threshold), r, a).walked = 0
                /\ LeafStorageRoot(Env(threshold), r, a).updates
                       = [k \in {StorageTrieKey(a)} |-> TrieOpDelete]

\* Witness of C12: the leaf of the storage account was handled after all its
\* slots were deleted, with storage-trie nodes of the address still persisted
\* and the deleted slots as changed prefixes.
C12_Witness ==
    /\ Computing
    /\ calc.hashed_address = StorageAccount
    /\ calc.storage_root = EMPTY_ROOT_HASH
    /\ StorageAccount \notin DOMAIN hashedStorage
    /\ StorageAccount \in DOMAIN storagesTrie
    /\ EntriesOfSet(changed_storage_prefixes, StorageAccount) # {}

\* C13: destroyed accounts.  The updates of a Complete result hold
\* StorageTrie(addr) -> Delete for every destroyed account, and Delete is what
\* the updates merged over the segments record for that key.
C13_DestroyedDeleted ==
    Done =>
        \A a \in destroyed_accounts :
            /\ StorageTrieKey(a) \in DOMAIN calc.result.updates
            /\ calc.result.updates[StorageTrieKey(a)] = TrieOpDelete
            /\ MergeUpdates(segment_updates)[StorageTrieKey(a)] = TrieOpDelete

\* Witness of C13: a computation completed after the storage account, with
\* persisted storage-trie nodes, was destroyed.
C13_Witness ==
    /\ Done
    /\ StorageAccount \in destroyed_accounts
    /\ StorageAccount \in DOMAIN storagesTrie

\* C14: errors are fatal and carry no partial result.  A call in which a
\* cursor open, a step of the node iterator or a nested storage root failed
\* returns an error without root, updates or snapshot; Progress is returned
\* only by the threshold check after a leaf.
C14_ErrorsAreFatal ==
    /\ pc = "error" =>
           /\ calc.result.kind = "Err"
           /\ calc.result.root = NoHash
           /\ calc.result.updates = EmptyMap
           /\ ~calc.result.state.some
    /\ calc.result.kind = "Progress" =>
           /\ pc = "returned"
           /\ retain_updates
           /\ calc.total_updates_len # None
           /\ calc.total_updates_len >= threshold

\* Witness of C14: a resumed call failed.
C14_Witness ==
    /\ pc = "error"
    /\ entry = "root_with_progress"
    /\ previous_state.some
    /\ Cardinality(DOMAIN hashedAccounts) >= 2

\* C15: purity.  No step of a computation (a call begun, a pass of the loop, a
\* resumption, a failure) changes the HashedAccount, HashedStorage,
\* AccountsTrie or StoragesTrie table; the trie tables change only when the
\* caller flushes the updates of a completed computation.
C15_ComputationIsPure ==
    [][/\ pc' # "idle" => UNCHANGED tables
       /\ <<accountsTrie, storagesTrie>>' # <<accountsTrie, storagesTrie>> =>
              /\ pc = "returned"
              /\ calc.result.kind = "Complete"
              /\ retain_updates
              /\ pc' = "idle"]_vars

\* Witness of C15: a computation from scratch returned updates of account-trie
\* nodes and the trie tables are still empty.
C15_Witness ==
    /\ Done
    /\ retain_updates
    /\ \E k \in DOMAIN calc.result.updates : k.kind = "AccountNode"
    /\ accountsTrie = EmptyMap
    /\ storagesTrie = EmptyMap

\* The iteration under way is a direct one over start <= end, or any.
DirectIteration == range_call.caller = "iter"

\* C16: BlockRangeInclusiveIter coverage.  For start <= end and any step the
\* iteration does not panic, its first range begins at start, each following
\* range begins one past the end of the previous one, and when the iteration
\* has ended the last range ends at end.
C16_RangeCoverage ==
    range_call.caller # "none" /\ range_call.start <= range_call.end =>
        /\ range_pc # "panicked"
        /\ ranges # <<>> => ranges[1][1] = range_call.start
        /\ \A i \in 1 .. Len(ranges) - 1 :
               /\ ranges[i][2] < U64_MAX
               /\ ranges[i + 1][1] = ranges[i][2] + 1
        /\ range_pc = "finished" /\ logs_result \in {"None", "Ok"} =>
               /\ ranges # <<>>
               /\ ranges[Len(ranges)][2] = range_call.end

\* C17: BlockRangeInclusiveIter range size.  Every emitted range (from, to)
\* has from <= to and at most step + 1 block numbers, and every range but the
\* last has exactly step + 1.
C17_RangeSize ==
    /\ \A i \in 1 .. Len(ranges) :
           /\ ranges[i][1] <= ranges[i][2]
           /\ ranges[i][2] - ranges[i][1] <= range_call.step
    /\ \A i \in 1 .. Len(ranges) - 1 :
           ranges[i][2] - ranges[i][1] = range_call.step

\* Witness of C17: a direct iteration has ended after several full ranges and
\* a shorter last one.
C17_Witness ==
    /\ DirectIteration
    /\ range_pc = "finished"
    /\ Len(ranges) >= 3
    /\ ranges[Len(ranges)][2] - ranges[Len(ranges)][1] < range_call.step

\* C18: header batch limit.  Every range get_logs_in_block_range passes to
\* provider.headers_range holds at most max_headers_range block numbers.
C18_HeaderBatchLimit ==
    range_call.caller = "get_logs_in_block_range" =>
        \A i \in 1 .. Len(ranges) :
            ranges[i][2] - ranges[i][1] < max_headers_range

\* C19: stale eviction is exact. A clear_stale_filters call removes every
\* installed filter whose last poll is more than stale_filter_ttl ago and keeps
\* every filter whose last poll is at most stale_filter_ttl ago.
C19_StaleEvictionExact ==
    [][ClearStaleFilters =>
          \A id \in DOMAIN active_filters :
              id \in DOMAIN active_filters' <=>
                  now - active_filters[id].last_poll_timestamp <= stale_filter_ttl]_vars

\* C20: polling keeps a filter alive. The last_poll_timestamp of an installed
\* filter is the time of the last filter_changes call that found it (or of its
\* installation), whatever that call returned, and clear_stale_filters never
\* removes a filter that such a call found less than stale_filter_ttl ago.
C20_PollingKeepsAlive ==
    /\ [](\A id \in DOMAIN active_filters :
              active_filters[id].last_poll_timestamp = polled_at[id])
    /\ [][ClearStaleFilters =>
              \A id \in DOMAIN active_filters :
                  now - polled_at[id] < stale_filter_ttl => id \in DOMAIN active_filters']_vars

\* C21: pending-transaction filter. Every filter_changes call on an installed
\* PendingTransaction filter that the provider does not fail returns Hashes
\* with exactly what its receiver has received since the last call, in arrival
\* order, whether or not a block was added since, and leaves the receiver
\* empty, so that no hash is returned twice.
C21_PendingTransactionsDrained ==
    [][(/\ response'.op = "filter_changes"
        /\ response'.result # "Err"
        /\ response'.id \in DOMAIN active_filters
        /\ active_filters[response'.id].kind = "PendingTransaction")
       => /\ response'.result = "Hashes"
          /\ response'.hashes = receivers[response'.id]
          /\ receivers'[response'.id] = <<>>]_vars

\* C22: block filter window. A filter_changes call that finds a Block filter
\* with blocks to report starts at the block after the best block read at the
\* filter's installation or by its last call that returned changes, and the
\* hashes it returns are those of the blocks from there to the best block the
\* call has read.
C22_BlockFilterWindow ==
    [][/\ (/\ request.phase = "chain_info"
           /\ request'.phase = "fetch"
           /\ request'.kind = "Block")
          => request'.start_block = polled_best[request.id] + 1
       /\ (/\ request.phase = "fetch"
           /\ request.kind = "Block"
           /\ response'.result = "Hashes")
          => /\ response'.from = request.start_block
             /\ response'.to = request.best_number
             /\ response'.hashes = [i \in 1 .. (response'.to + 1 - response'.from) |-> response'.from + i - 1]]_vars

\* C23: filter_logs returns FilterNotFound exactly when the id is not
\* installed or the installed filter is not a Log filter, and it leaves the
\* table of active filters as it was, whatever it returns.
C23_FilterLogsNotFound ==
    [][response'.op = "filter_logs" =>
          /\ response'.result = "FilterNotFound" <=>
                 \/ response'.id \notin DOMAIN active_filters
                 \/ active_filters[response'.id].kind # "Log"
          /\ active_filters' = active_filters]_vars

C23_Witness ==
    /\ response.op = "filter_logs"
    /\ response.result = "FilterNotFound"
    /\ response.id \in DOMAIN active_filters
    /\ active_filters[response.id].kind # "Log"

\* C24: uninstall_filter(id) returns true exactly when id is installed, leaves
\* id not installed and every other filter as it was.  An id that is no longer
\* installed is never installed again, so whatever the other requests do in
\* between, a filter_changes or filter_logs call that looks it up afterwards
\* returns FilterNotFound and another uninstall_filter returns false.
C24_UninstallFilter ==
    [][/\ response'.op = "uninstall_filter" =>
              /\ response'.result = "true" <=> response'.id \in DOMAIN active_filters
              /\ response'.id \notin DOMAIN active_filters'
              /\ \A other \in (DOMAIN active_filters) \ {response'.id} :
                     /\ other \in DOMAIN active_filters'
                     /\ active_filters'[other] = active_filters[other]
       /\ \A id \in 1 .. (next_id - 1) :
              id \notin DOMAIN active_filters => id \notin DOMAIN active_filters'
       /\ (/\ response'.op = "filter_changes"
           /\ request.phase = "chain_info"
           /\ response'.result # "Err"
           /\ request.id \notin DOMAIN active_filters)
          => response'.result = "FilterNotFound"
       /\ (/\ response'.op = "filter_logs"
           /\ response'.id \notin DOMAIN active_filters)
          => response'.result = "FilterNotFound"]_vars

C24_Witness ==
    /\ response.op = "uninstall_filter"
    /\ response.result = "true"
    /\ response.id \notin DOMAIN active_filters
    /\ active_filters # EmptyMap

\* The matching logs of the blocks from .. to of the call under way, in block
\* order: one entry per log, naming its block.
RECURSIVE MatchingLogs(_, _)
MatchingLogs(blocks, logs_at) ==
    IF blocks = <<>> THEN <<>>
    ELSE [i \in 1 .. logs_at[Head(blocks)] |-> Head(blocks)] \o MatchingLogs(Tail(blocks), logs_at)

MatchingLogsOfCall ==
    MatchingLogs(BlocksWithLogs(range_call.logs_at, <<range_call.start, range_call.end>>), range_call.logs_at)

\* C25: a get_logs_in_block_range call with from_block = to_block never
\* returns QueryExceedsMaxResults, and when it returns its logs they are all
\* the matching logs of that block, however many.
C25_SingleBlockUnlimited ==
    (/\ range_call.caller = "get_logs_in_block_range"
     /\ range_call.start = range_call.end)
    => /\ logs_result # "QueryExceedsMaxResults"
       /\ (range_pc = "finished" /\ logs_result = "Ok") => all_logs = MatchingLogsOfCall

C25_Witness ==
    /\ range_call.caller = "get_logs_in_block_range"
    /\ range_call.start = range_call.end
    /\ range_pc = "finished"
    /\ logs_result = "Ok"
    /\ Len(all_logs) > max_logs_per_response

\* C26: a get_logs_in_block_range call with from_block # to_block that no
\* provider error ends returns QueryExceedsMaxResults if and only if the
\* matching logs of the range are more than max_logs_per_response, and a
\* successful result holds at most max_logs_per_response logs.
C26_MultiBlockLimit ==
    (/\ range_call.caller = "get_logs_in_block_range"
     /\ range_call.start # range_call.end
     /\ range_pc = "finished"
     /\ logs_result # "EthAPIError")
    => /\ logs_result \in {"Ok", "QueryExceedsMaxResults"}
       /\ logs_result = "QueryExceedsMaxResults" <=> Len(MatchingLogsOfCall) > max_logs_per_response
       /\ logs_result = "Ok" =>
              /\ Len(all_logs) <= max_logs_per_response
              /\ all_logs = MatchingLogsOfCall

C26_Witness ==
    /\ range_call.caller = "get_logs_in_block_range"
    /\ range_call.start < range_call.end
    /\ range_pc = "finished"
    /\ logs_result = "QueryExceedsMaxResults"
    /\ Len(ranges) > 1

C28_SnapshotContent ==
    (pc = "returned" /\ calc.result.kind = "Progress") =>
        LET state == calc.result.state
            walker == calc.account_node_iter.walker
        IN  /\ calc.fed # <<>>
            /\ calc.fed[Len(calc.fed)] = Unpack(state.last_account_key)
            /\ state.last_account_key = calc.hashed_address
            /\ state.last_account_key \in DOMAIN hashedAccounts
            /\ state.hash_builder.key = Unpack(state.last_account_key)
            /\ ~state.hash_builder.value_is_hash
            /\ state.hash_builder.updated_branch_nodes = EmptyMap
            /\ HbUpdatesLen(state.hash_builder) = 0
            /\ state.walker_stack = walker.stack
            /\ \A p \in DOMAIN calc.hash_builder.updated_branch_nodes :
                   /\ AccountNodeKey(p) \in DOMAIN calc.result.updates
                   /\ calc.result.updates[AccountNodeKey(p)] = calc.hash_builder.updated_branch_nodes[p]
            /\ \A p \in walker.deletes : AccountNodeKey(p) \in DOMAIN calc.result.updates

\* Witness of C28: a Progress returned while the hash builder and the walker
\* both held pending updates.
C28_Witness ==
    /\ pc = "returned"
    /\ calc.result.kind = "Progress"
    /\ calc.hash_builder.updated_branch_nodes # EmptyMap
    /\ calc.account_node_iter.walker.deletes # {}

\* The loop of the storage root of the storage account over the tables as they
\* are, in retain-updates mode: its walker and its hash builder before root().
StorageLoopNow ==
    StorageRootLoop(
        NodeIterNew(WalkerSetUpdates(
            WalkerNew(EntriesOf(storagesTrie, StorageAccount),
                      PrefixSetOf(EntriesOfSet(changed_storage_prefixes, StorageAccount))),
            TRUE)),
        HbSetUpdates(HashBuilderDefault, TRUE), 0, <<>>,
        EntriesOf(hashedStorage, StorageAccount), EntriesOf(storagesTrie, StorageAccount))

\* The storage root of the storage account was computed by the call under way.
StorageRootComputed ==
    /\ retain_updates
    /\ pc \in {"loop", "returned"}
    /\ DOMAIN EntriesOf(hashedStorage, StorageAccount) # {}
    /\ \E i \in 1 .. Len(calc.fed) : calc.fed[i] = Unpack(StorageAccount)

\* C29: walker deletes never hide rebuilt branches.  In a returned Progress or
\* Complete the account-trie ops are one per key the walker or the hash builder
\* holds an update for: the hash builder's Update where it has one, whether or
\* not the walker deletes the same key, and a Delete for the other keys of the
\* walker.  The same holds for the storage-trie ops of a storage root.
C29_UpdatesOverrideDeletes ==
    /\ (pc = "returned" /\ retain_updates) =>
           LET deletes == calc.account_node_iter.walker.deletes
               updated == calc.hash_builder.updated_branch_nodes
               ops == calc.result.updates
           IN  /\ {k \in DOMAIN ops : k.kind = "AccountNode"}
                      = {AccountNodeKey(p) : p \in deletes \cup DOMAIN updated}
               /\ \A p \in DOMAIN updated :
                      /\ ops[AccountNodeKey(p)].some
                      /\ ops[AccountNodeKey(p)] = TrieOpUpdate(updated[p])
               /\ \A p \in deletes \ DOMAIN updated : ops[AccountNodeKey(p)] = TrieOpDelete
    /\ StorageRootComputed =>
           LET l == StorageLoopNow
               deletes == l.it.walker.deletes
               updated == HbRoot(l.hb).updated_branch_nodes
               ops == calc.trie_updates
           IN  /\ {k \in DOMAIN ops : k.kind = "StorageNode"}
                      = {StorageNodeKey(StorageAccount, p) : p \in deletes \cup DOMAIN updated}
               /\ \A p \in DOMAIN updated :
                      /\ ops[StorageNodeKey(StorageAccount, p)].some
                      /\ ops[StorageNodeKey(StorageAccount, p)] = TrieOpUpdate(updated[p])
               /\ \A p \in deletes \ DOMAIN updated :
                      ops[StorageNodeKey(StorageAccount, p)] = TrieOpDelete

\* Witness of C29: a Progress returned with a key that the walker deletes and
\* the hash builder has rebuilt.
C29_Witness ==
    /\ pc = "returned"
    /\ calc.result.kind = "Progress"
    /\ calc.account_node_iter.walker.deletes \cap DOMAIN calc.hash_builder.updated_branch_nodes # {}

\* The node the iterator yields in the pass of the loop about to run.
YieldedNode == NodeIterTryNext(calc.account_node_iter, hashedAccounts, accountsTrie)

\* StorageRoot::calculate for `a` with the prefix set registered for it, or
\* with an empty one when none is registered.
RegisteredStorageRoot(a) ==
    StorageRootCalculate(a,
        IF a \in DOMAIN hashedStorage THEN hashedStorage[a] ELSE EmptyMap,
        IF a \in DOMAIN storagesTrie THEN storagesTrie[a] ELSE EmptyMap,
        PrefixSetOf(IF a \in DOMAIN changed_storage_prefixes
                    THEN changed_storage_prefixes[a] ELSE {}),
        retain_updates)

====
